---------------------------- MODULE Spec2Model ----------------------------
(***************************************************************************)
(* A model of the request-processing core of the tddpractice backend:     *)
(*   - pipe, the asynchronous step composer            (src/app/tools.js)  *)
(*   - the envelope steps composeRequest, makeRequest, mapResponse,       *)
(*     setWith, applyFilters, createResult   (src/app/tools.js, network.js)*)
(*   - mapKeysWith, the contract-driven key renamer     (src/app/tools.js) *)
(*                                                                         *)
(* JavaScript values are tagged records.  Objects and arrays live in a    *)
(* heap of cells and are passed by reference, so that cloning, sharing    *)
(* and in-place assignment are distinguishable.                           *)
(***************************************************************************)
EXTENDS Integers, Sequences, FiniteSets, TLC

VARIABLES
    \* ---- one invocation of pipe(...fns)(input) ----
    fns,        \* the step functions handed to pipe, in order
    input,      \* the value handed to the composed function
    pcPipe,     \* "idle" | "start" | "called"
    wrapper,    \* wrapper[k]: the k-th reducer callback: "suspended" | "locked" | "done"
    promise,    \* promise[k]: the promise the k-th reducer callback returned
    stepPromise,\* stepPromise[k]: the promise the k-th step itself returned, if any
    invoked,    \* the positions of the steps invoked so far, in invocation order
    returned,   \* what the composed function returned to its caller
    outcome,    \* what the caller's await on `returned` delivered
    \* ---- calls of the envelope steps and of applyFilters ----
    heap,       \* the cells of every object and array created so far
    cur,        \* the value the next call is handed: an envelope, or an array of rows
    op,         \* the last call made
    arg,        \* the value the last call was handed
    argBefore,  \* what that value denoted when the call was made
    retval,     \* the value the last call returned
    err,        \* the error the last call threw, "none" if it returned
    ncalls,     \* the number of calls made
    \* ---- one call of mapKeysWith ----
    mkData,     \* the own properties of the record handed to mapKeysWith
    mkContract, \* the own properties of the contract handed to mapKeysWith
    mkMapped,   \* the object returned, once the call is done: its own properties
    \* ---- calls of the validators ----
    vModel,     \* the interface model handed to isValidInterface
    vList,      \* the restriction list the caller holds and hands to every call
    history,    \* the outcome of every call of a validator so far, in order
    \* ---- the server ----
    reqs,       \* reqs[r]: the GET /stores request r and the state of its handler
    \* ---- the hooks of the integration test ----
    processes,  \* the array processes of hooks.js: the names of the servers recorded
    childProcess,         \* childProcess[name]: the child process spawned for the server name
    pcBeforeAll, \* where the BeforeAll hook is
    pcAfterAll, \* where the AfterAll hook is
    exitsSeen,   \* the servers whose killProcess promise has resolved
    scenarios   \* the number of scenarios run

pipeVars == <<fns, input, pcPipe, wrapper, promise, stepPromise, invoked, returned, outcome>>
stepVars == <<heap, cur, op, arg, argBefore, retval, err, ncalls>>
mapVars == <<mkData, mkContract, mkMapped>>
valVars == <<vModel, vList, history>>
srvVars == <<reqs>>
hookVars == <<processes, childProcess, pcBeforeAll, pcAfterAll, exitsSeen, scenarios>>

vars == <<pipeVars, stepVars, mapVars, valVars, srvVars, hookVars>>

---------------------------------------------------------------------------
(* Bounds of the model *)

\* the longest list of steps handed to pipe
MaxSteps == 3
\* the most calls made in a row on one envelope
MaxCalls == 4
\* the longest array of rows handed to applyFilters
MaxRows == 3
\* the longest list of predicates handed to applyFilters
MaxFilters == 2
\* the most entries of a contract handed to mapKeysWith
MaxContract == 2
\* the longest sequence handed to a validator
MaxElems == 2
\* the most calls of the validators on one input and one list
MaxChecks == 3
\* the most requests in flight at the server
MaxRequests == 2
\* the scenarios of one run of the integration test
MaxScenarios == 2

---------------------------------------------------------------------------
(* JavaScript values *)

Undefined == [t |-> "undefined"]
Num(n) == [t |-> "number", n |-> n]
Str(s) == [t |-> "string", s |-> s]
NaN == [t |-> "NaN"]
\* an Error object, identified by the position of the step that raised it
Err(k) == [t |-> "error", by |-> k]
\* a promise object that reached a step unawaited
PromiseObject == [t |-> "promise"]

IsNum(v) == v.t = "number"

---------------------------------------------------------------------------
(* The heap: objects and arrays are cells, held by reference *)

Ref(i) == [t |-> "ref", id |-> i]
IsRef(v) == v.t = "ref"
\* a function object, identified by its name; never cloned, never written to
Fn(name) == [t |-> "function", f |-> name]
\* the URL object new URL(rel, base)
Url(rel, base) == [t |-> "url", rel |-> rel, base |-> base]

\* literals: an object is its own properties in insertion order
Obj(entries) == [t |-> "object", entries |-> entries]
Arr(elems) == [t |-> "array", elems |-> elems]
IsLit(v) == v.t \in {"object", "array"}

ObjectCell(entries) == [kind |-> "object", entries |-> entries]
ArrayCell(elems) == [kind |-> "array", elems |-> elems]

HasKey(entries, k) == \E i \in 1..Len(entries) : entries[i][1] = k
GetKey(entries, k) ==
    IF HasKey(entries, k)
    THEN entries[CHOOSE i \in 1..Len(entries) : entries[i][1] = k][2]
    ELSE Undefined
\* entries[k] = v: an own property keeps its place, a new one goes last
PutKey(entries, k, v) ==
    IF HasKey(entries, k)
    THEN [i \in 1..Len(entries) |-> IF entries[i][1] = k THEN <<k, v>> ELSE entries[i]]
    ELSE Append(entries, <<k, v>>)
\* delete entries[k]
DelKey(entries, k) ==
    LET Keep(e) == e[1] # k IN SelectSeq(entries, Keep)
KeysOf(entries) == {entries[i][1] : i \in 1..Len(entries)}

IsArray(h, v) == IsRef(v) /\ h[v.id].kind = "array"
IsPlainObject(h, v) == IsRef(v) /\ h[v.id].kind = "object"

\* v[k] for a value that is not null or undefined
Prop(h, v, k) ==
    IF IsPlainObject(h, v) THEN GetKey(h[v.id].entries, k) ELSE Undefined

RECURSIVE DeepVal(_, _)
\* the structure a value denotes: what deepEqual compares
DeepVal(h, v) ==
    IF ~IsRef(v) THEN v
    ELSE LET c == h[v.id]
         IN  IF c.kind = "array"
             THEN Arr([i \in 1..Len(c.elems) |-> DeepVal(h, c.elems[i])])
             ELSE Obj([i \in 1..Len(c.entries) |->
                         <<c.entries[i][1], DeepVal(h, c.entries[i][2])>>])

\* what a literal holds, in order
Members(lit) ==
    IF lit.t = "array" THEN lit.elems
    ELSE [i \in 1..Len(lit.entries) |-> lit.entries[i][2]]

RECURSIVE LitPaths(_)
\* the literals nested in a literal, itself included, each named by the
\* positions that lead to it
LitPaths(lit) ==
    {<< >>} \cup
    UNION {{<<k>> \o p : p \in LitPaths(Members(lit)[k])} :
             k \in {j \in 1..Len(Members(lit)) : IsLit(Members(lit)[j])}}

RECURSIVE LitAt(_, _)
LitAt(lit, p) ==
    IF p = << >> THEN lit ELSE LitAt(Members(lit)[Head(p)], Tail(p))

\* evaluation order: the literal at q is complete before the one at p is,
\* being inside it, or inside an earlier member of an enclosing literal
EvaluatedBefore(q, p) ==
    \/ Len(p) < Len(q) /\ SubSeq(q, 1, Len(p)) = p
    \/ \E i \in 1..Len(p) :
          /\ i <= Len(q)
          /\ SubSeq(q, 1, i - 1) = SubSeq(p, 1, i - 1)
          /\ q[i] < p[i]

\* the evaluation of a literal: fresh cells for it and for everything in it,
\* a cell for a literal coming after the cells for what it holds
Alloc(h, lit) ==
    IF ~IsLit(lit) THEN [h |-> h, v |-> lit]
    ELSE LET paths == LitPaths(lit)
             place(p) == Len(h) + Cardinality({q \in paths : EvaluatedBefore(q, p)}) + 1
             at(n) == CHOOSE p \in paths : place(p) = Len(h) + n
             value(p, k) ==
                 LET m == Members(LitAt(lit, p))[k]
                 IN  IF IsLit(m) THEN Ref(place(p \o <<k>>)) ELSE m
             cell(p) ==
                 LET l == LitAt(lit, p)
                 IN  IF l.t = "array"
                     THEN ArrayCell([k \in 1..Len(l.elems) |-> value(p, k)])
                     ELSE ObjectCell([k \in 1..Len(l.entries) |->
                                        <<l.entries[k][1], value(p, k)>>])
         IN  [h |-> h \o [n \in 1..Cardinality(paths) |-> cell(at(n))],
              v |-> Ref(place(<< >>))]

---------------------------------------------------------------------------
(* lodash: cloneDeep, get, set *)

\* the cells the members of a cell refer to
RefsOf(c) ==
    IF c.kind = "array"
    THEN {c.elems[k].id : k \in {j \in 1..Len(c.elems) : IsRef(c.elems[j])}}
    ELSE {c.entries[k][2].id : k \in {j \in 1..Len(c.entries) : IsRef(c.entries[j][2])}}

RECURSIVE Reachable(_, _)
\* the cells baseClone visits from the cells `ids`
Reachable(h, ids) ==
    LET more == ids \cup UNION {RefsOf(h[i]) : i \in ids}
    IN  IF more = ids THEN ids ELSE Reachable(h, more)

\* a clone that hands its argument back
cloneDeepNone(h, v) == [h |-> h, v |-> v]

\* baseClone: a primitive, a function or a URL nested in an object is handed
\* back as it is; every object or array reached from the value gets one fresh
\* cell, so that a cell met twice is cloned once, and the members of the
\* fresh cells refer to fresh cells
cloneDeep(h, v) ==
    IF ~IsRef(v) THEN [h |-> h, v |-> v]
    ELSE LET ids == Reachable(h, {v.id})
             place(i) == Len(h) + Cardinality({j \in ids : j <= i})
             source(n) == CHOOSE i \in ids : place(i) = Len(h) + n
             moved(x) == IF IsRef(x) THEN Ref(place(x.id)) ELSE x
             copy(c) ==
                 IF c.kind = "array"
                 THEN ArrayCell([k \in 1..Len(c.elems) |-> moved(c.elems[k])])
                 ELSE ObjectCell([k \in 1..Len(c.entries) |->
                                    <<c.entries[k][1], moved(c.entries[k][2])>>])
         IN  [h |-> h \o [n \in 1..Cardinality(ids) |-> copy(h[source(n)])],
              v |-> Ref(place(v.id))]

RECURSIVE baseGet(_, _, _)
\* the walk stops at the first undefined value on the path
baseGet(h, v, path) ==
    IF path = << >> THEN v
    ELSE IF v = Undefined THEN Undefined
    ELSE baseGet(h, Prop(h, v, Head(path)), Tail(path))

\* get(object, path, defaultValue)
get(h, v, path, default) ==
    LET r == baseGet(h, v, path) IN IF r = Undefined THEN default ELSE r

\* object[key] = value on the cell of an object
assignValue(h, id, key, value) ==
    [h EXCEPT ![id] = ObjectCell(PutKey(h[id].entries, key, value))]

RECURSIVE baseSetFresh(_, _, _, _)
\* a set that puts a fresh {} at every key of the path but the last
baseSetFresh(h, id, path, value) ==
    IF Len(path) = 1 THEN assignValue(h, id, Head(path), value)
    ELSE LET n == Len(h) + 1
             h1 == Append(assignValue(h, id, Head(path), Ref(n)), ObjectCell(<< >>))
         IN  baseSetFresh(h1, n, Tail(path), value)

RECURSIVE baseSet(_, _, _, _)
\* every value on the path but the last is kept when it is an object and is
\* replaced by a fresh {} otherwise; the last key is assigned the value
baseSet(h, id, path, value) ==
    IF Len(path) = 1 THEN assignValue(h, id, Head(path), value)
    ELSE LET objValue == Prop(h, Ref(id), Head(path))
         IN  IF IsRef(objValue)
             THEN baseSet(h, objValue.id, Tail(path), value)
             ELSE LET n == Len(h) + 1
                      h1 == Append(assignValue(h, id, Head(path), Ref(n)), ObjectCell(<< >>))
                  IN  baseSet(h1, n, Tail(path), value)

\* set(object, path, value): assigns in place and returns the heap; the
\* object handed in is the result
set(h, v, path, value) ==
    IF IsPlainObject(h, v) THEN baseSet(h, v.id, path, value) ELSE h

---------------------------------------------------------------------------
(* mapKeysWith *)

\* the names every object literal inherits from Object.prototype
ObjectPrototypeKeys ==
    {"constructor", "toString", "toLocaleString", "valueOf", "hasOwnProperty",
     "isPrototypeOf", "propertyIsEnumerable"}

\* String(v), as done to a value used as a property key
ToKey(v) ==
    CASE v.t = "string"    -> v.s
      [] v.t = "undefined" -> "undefined"
      [] v.t = "function"  -> "function " \o v.f \o "() { [native code] }"
      [] OTHER             -> "[object Object]"

RECURSIVE invert(_)
\* invert(object): result[value] = key for every own property in order, so
\* that of two properties with one value the later wins
invert(entries) ==
    IF entries = << >> THEN << >>
    ELSE LET n == Len(entries)
         IN  CHOOSE result \in
               {PutKey(done, ToKey(entries[n][2]), Str(entries[n][1])) :
                  done \in {invert(SubSeq(entries, 1, n - 1))}} : TRUE

\* object[key] on an object literal: an own property, else an inherited one
Lookup(entries, key) ==
    IF HasKey(entries, key) THEN GetKey(entries, key)
    ELSE IF key \in ObjectPrototypeKeys
         THEN Fn(IF key = "constructor" THEN "Object" ELSE key)
         ELSE Undefined

\* the iteratee of mapKeysWith: (value, key) => contractProps[key]
ContractKey(contractProps, key) == Lookup(contractProps, key)

RECURSIVE mapKeys(_, _)
\* mapKeys(object, iteratee): result[iteratee(value, key)] = value for every
\* own property in order
mapKeys(entries, contractProps) ==
    IF entries = << >> THEN << >>
    ELSE LET n == Len(entries)
         IN  CHOOSE result \in
               {PutKey(done, ToKey(ContractKey(contractProps, entries[n][1])), entries[n][2]) :
                  done \in {mapKeys(SubSeq(entries, 1, n - 1), contractProps)}} : TRUE

\* mapKeysWith(data, contract) on the own properties of data and contract
mapKeysWith(data, contract) ==
    CHOOSE result \in
      {DelKey(mapKeys(data, contractProps), "undefined") :
         contractProps \in {invert(contract)}} : TRUE

\* the own properties of a value handed to invert or mapKeys: none for
\* undefined and for primitives
OwnEntries(h, v) == IF IsPlainObject(h, v) THEN h[v.id].entries ELSE << >>

---------------------------------------------------------------------------
(* applyFilters *)

\* a < n in JavaScript for a number or an absent value a
LessThan(v, n) == IsNum(v) /\ v.n < n

\* the predicates of the repository: element => element.x < 4 and
\* element => element.distance < 200
Predicates == {"xLessThan4", "distanceLessThan200"}

Filter(name, h, element) ==
    CASE name = "xLessThan4"          -> LessThan(Prop(h, element, "x"), 4)
      [] name = "distanceLessThan200" -> LessThan(Prop(h, element, "distance"), 200)

RECURSIVE some(_, _, _)
\* filters.some(filter => filter(element))
some(filters, h, element) ==
    IF filters = << >> THEN FALSE
    ELSE Filter(Head(filters), h, element) \/ some(Tail(filters), h, element)

RECURSIVE every(_, _, _)
\* filters.every(filter => filter(element))
every(filters, h, element) ==
    IF filters = << >> THEN TRUE
    ELSE Filter(Head(filters), h, element) /\ every(Tail(filters), h, element)

\* a callback that keeps an element as soon as one predicate holds
KeepsSome(filters, h, element) == some(filters, h, element)

\* the callback of data.filter
Keeps(filters, h, element) == every(filters, h, element)

RECURSIVE filter(_, _, _)
\* data.filter(callback): the elements the callback keeps, in index order
filter(elems, filters, h) ==
    IF elems = << >> THEN << >>
    ELSE (IF Keeps(filters, h, Head(elems)) THEN <<Head(elems)>> ELSE << >>)
         \o filter(Tail(elems), filters, h)

\* the outcome of a call: the heap after it, and the value returned or the
\* error thrown
Returns(h, v) == [h |-> h, ret |-> v, err |-> "none"]
Throws(h, e) == [h |-> h, ret |-> Undefined, err |-> e]

\* applyFilters(filters)(data): a new array of the elements kept
applyFilters(filters, h, data) ==
    IF ~IsArray(h, data) THEN Throws(h, "TypeError")
    ELSE Returns(Append(h, ArrayCell(filter(h[data.id].elems, filters, h))), Ref(Len(h) + 1))

---------------------------------------------------------------------------
(* The envelope steps *)

DataConfig == <<"data", "config">>
DataRequest == <<"data", "request">>
DataResponse == <<"data", "response">>
DataResponseBody == <<"data", "response", "body">>
DataMappedResponse == <<"data", "mappedResponse">>
Result == <<"result">>

\* the hosts of the repository: absolute URLs
AbsoluteUrls == {"http://localhost:3010", "http://localhost:3333"}
IsAbsoluteUrl(v) == v.t = "string" /\ v.s \in AbsoluteUrls

\* lift(config, body): { event: { body }, data: { config }, result: {} }
lift(config, body) ==
    Obj(<< <<"event", Obj(<< <<"body", body>> >>)>>,
           <<"data", Obj(<< <<"config", config>> >>)>>,
           <<"result", Obj(<< >>)>> >>)

\* a composeRequest whose request options carry no method
composeRequestHeadersOnly(h, payload) ==
    LET c == cloneDeep(h, payload)
        config == get(c.h, payload, DataConfig, Undefined)
        host == Prop(c.h, config, "host")
        headers == Prop(c.h, config, "headers")
        endpoint == Prop(c.h, config, "endpoint")
        n == Len(c.h)
        options == ObjectCell(<< <<"headers", headers>> >>)
        requestOptions == ObjectCell(<< <<"uri", Url(ToKey(endpoint), host.s)>>,
                                        <<"options", Ref(n + 1)>> >>)
        h1 == c.h \o <<options, requestOptions>>
    IN  IF ~IsAbsoluteUrl(host) THEN Throws(c.h, "TypeError")
        ELSE Returns(set(h1, c.v, DataRequest, Ref(n + 2)), c.v)

\* composeRequest(payload); the configuration is read from payload itself,
\* not from its clone
composeRequest(h, payload) ==
    LET c == cloneDeep(h, payload)
        config == get(c.h, payload, DataConfig, Undefined)
        host == Prop(c.h, config, "host")
        headers == Prop(c.h, config, "headers")
        method == Prop(c.h, config, "method")
        endpoint == Prop(c.h, config, "endpoint")
        n == Len(c.h)
        options == ObjectCell(<< <<"headers", headers>>, <<"method", method>> >>)
        requestOptions == ObjectCell(<< <<"uri", Url(ToKey(endpoint), host.s)>>,
                                        <<"options", Ref(n + 1)>> >>)
        h1 == c.h \o <<options, requestOptions>>
    IN  IF ~IsAbsoluteUrl(host) THEN Throws(c.h, "TypeError")
        ELSE Returns(set(h1, c.v, DataRequest, Ref(n + 2)), c.v)

\* makeRequest(payload), with the upstream's answer: a parsed JSON body, or
\* a failure of the transport
makeRequest(h, payload, reply) ==
    LET c == cloneDeep(h, payload)
        request == get(c.h, c.v, DataRequest, Undefined)
        response == Alloc(c.h, reply.body)
    IN  IF request = Undefined THEN Throws(c.h, "TypeError")
        ELSE IF ~reply.ok THEN Throws(c.h, "RequestError")
        ELSE Returns(set(response.h, c.v, DataResponseBody, response.v), c.v)

RECURSIVE mapElements(_, _, _)
\* body.map(element => mapKeysWith(element, contract)): one fresh object per
\* element, in order
mapElements(h, elems, contract) ==
    IF elems = << >> THEN [h |-> h, vals |-> << >>]
    ELSE CHOOSE result \in
           {[h |-> rest.h, vals |-> <<Ref(Len(h) + 1)>> \o rest.vals] :
              rest \in {mapElements(Append(h, ObjectCell(mapKeysWith(OwnEntries(h, Head(elems)),
                                                                     contract))),
                                    Tail(elems), contract)}} : TRUE

\* a mapResponse that takes every body for a single record
mapResponseSingle(h, payload) ==
    LET c == cloneDeep(h, payload)
        config == get(c.h, c.v, DataConfig, Undefined)
        contract == OwnEntries(c.h, Prop(c.h, config, "contract"))
        response == get(c.h, c.v, DataResponse, Undefined)
        body == Prop(c.h, response, "body")
        one == Append(c.h, ObjectCell(mapKeysWith(OwnEntries(c.h, body), contract)))
    IN  IF response = Undefined THEN Throws(c.h, "TypeError")
        ELSE Returns(set(one, c.v, DataMappedResponse, Ref(Len(one))), c.v)

\* a mapResponse that takes a missing data.response for {}
mapResponseDefaulted(h, payload) ==
    LET c == cloneDeep(h, payload)
        config == get(c.h, c.v, DataConfig, Undefined)
        contract == OwnEntries(c.h, Prop(c.h, config, "contract"))
        response == get(c.h, c.v, DataResponse, Undefined)
        body == Prop(c.h, response, "body")
        many == mapElements(c.h, c.h[body.id].elems, contract)
        one == Append(c.h, ObjectCell(mapKeysWith(OwnEntries(c.h, body), contract)))
    IN  IF IsArray(c.h, body)
        THEN LET h1 == Append(many.h, ArrayCell(many.vals))
             IN  Returns(set(h1, c.v, DataMappedResponse, Ref(Len(h1))), c.v)
        ELSE Returns(set(one, c.v, DataMappedResponse, Ref(Len(one))), c.v)

\* mapResponse(payload)
mapResponse(h, payload) ==
    LET c == cloneDeep(h, payload)
        config == get(c.h, c.v, DataConfig, Undefined)
        contract == OwnEntries(c.h, Prop(c.h, config, "contract"))
        response == get(c.h, c.v, DataResponse, Undefined)
        body == Prop(c.h, response, "body")
        many == mapElements(c.h, c.h[body.id].elems, contract)
        one == Append(c.h, ObjectCell(mapKeysWith(OwnEntries(c.h, body), contract)))
    IN  IF response = Undefined THEN Throws(c.h, "TypeError")
        ELSE IF IsArray(c.h, body)
        THEN LET h1 == Append(many.h, ArrayCell(many.vals))
             IN  Returns(set(h1, c.v, DataMappedResponse, Ref(Len(h1))), c.v)
        ELSE Returns(set(one, c.v, DataMappedResponse, Ref(Len(one))), c.v)

\* a createResult whose result holds the data alone
createResultDataOnly(h, payload) ==
    LET c == cloneDeep(h, payload)
        data == get(c.h, c.v, DataMappedResponse, Undefined)
        h1 == Append(c.h, ObjectCell(<< <<"data", data>> >>))
    IN  Returns(set(h1, c.v, Result, Ref(Len(h1))), c.v)

\* createResult(payload)
createResult(h, payload) ==
    LET c == cloneDeep(h, payload)
        data == get(c.h, c.v, DataMappedResponse, Undefined)
        n == Len(c.h)
        metadata == ObjectCell(<< >>)
        result == ObjectCell(<< <<"data", data>>, <<"metadata", Ref(n + 1)>> >>)
        h1 == c.h \o <<metadata, result>>
    IN  Returns(set(h1, c.v, Result, Ref(n + 2)), c.v)

\* the text of the setWith test and what JSON.parse makes of it
JsonText == "{\"a\": 1, \"foo\": \"bar\"}"
JsonParsed == Obj(<< <<"a", Num(1)>>, <<"foo", Str("bar")>> >>)

\* the modifiers handed to setWith: identity, JSON.parse, applyFilters(filters)
Modify(modifier, h, data) ==
    CASE modifier.name = "identity" -> Returns(h, data)
      [] modifier.name = "JSON.parse" ->
            IF data = Str(JsonText)
            THEN LET a == Alloc(h, JsonParsed) IN Returns(a.h, a.v)
            ELSE Throws(h, "SyntaxError")
      [] modifier.name = "applyFilters" -> applyFilters(modifier.filters, h, data)

\* a setWith that writes back the value it read
setWithUnmodified(path, modifier, h, payload) ==
    LET c == cloneDeep(h, payload)
        data == get(c.h, c.v, path, Undefined)
    IN  Returns(set(c.h, c.v, path, data), c.v)

\* setWith(path, modifier)(payload)
setWith(path, modifier, h, payload) ==
    LET c == cloneDeep(h, payload)
        data == get(c.h, c.v, path, Undefined)
        m == Modify(modifier, c.h, data)
    IN  IF m.err # "none" THEN Throws(m.h, m.err)
        ELSE Returns(set(m.h, c.v, path, m.ret), c.v)

---------------------------------------------------------------------------
(* The step functions of the pipe tests, and two failing steps *)

StepNames ==
    {"identity", "addTwo", "multiplyByThree", "asyncMultiplyByTwo",
     "throwingStep", "rejectingStep"}

AsyncSteps == {"asyncMultiplyByTwo", "rejectingStep"}
FailingSteps == {"throwingStep", "rejectingStep"}

\* the value a step computes from its argument (for a failing step: its error)
StepValue(k, fn, v) ==
    CASE fn = "identity"           -> v
      [] fn = "addTwo"             -> IF IsNum(v) THEN Num(v.n + 2) ELSE NaN
      [] fn = "multiplyByThree"    -> IF IsNum(v) THEN Num(v.n * 3) ELSE NaN
      [] fn = "asyncMultiplyByTwo" -> IF IsNum(v) THEN Num(v.n * 2) ELSE NaN
      [] fn = "throwingStep"       -> Err(k)
      [] fn = "rejectingStep"      -> Err(k)

\* what the call fn(v) at position k does: return a value, throw, or return a
\* promise that later fulfils or rejects
StepCall(k, fn, v) ==
    CASE fn = "throwingStep"  -> [kind |-> "throw", state |-> "none", v |-> StepValue(k, fn, v)]
      [] fn = "rejectingStep" -> [kind |-> "promise", state |-> "rejected", v |-> StepValue(k, fn, v)]
      [] fn \in AsyncSteps    -> [kind |-> "promise", state |-> "fulfilled", v |-> StepValue(k, fn, v)]
      [] OTHER                -> [kind |-> "return", state |-> "none", v |-> StepValue(k, fn, v)]

---------------------------------------------------------------------------
(* pipe: fns.reduce(async (previousOutput, fn) => fn(await previousOutput), input) *)

Pending == [state |-> "pending"]
Fulfilled(v) == [state |-> "fulfilled", v |-> v]
Rejected(e) == [state |-> "rejected", v |-> e]

\* a reducer that hands every callback the initial value
PreviousOutputInitial(k) == Fulfilled(input)

\* the accumulator the k-th reducer callback receives: the input for the
\* first callback, the promise of the previous callback for the others
PreviousOutput(k) == IF k = 1 THEN Fulfilled(input) ELSE promise[k - 1]

\* a callback that does not await its accumulator
AwaitReadyNoWait(k) == TRUE

\* `await previousOutput` suspends the callback until previousOutput settles
AwaitReady(k) == PreviousOutput(k).state # "pending"

\* fn(v) called from the reducer callback at position k
CallStep(k, fn, v) ==
    LET s == StepCall(k, fn, v)
    IN  [called |-> TRUE, kind |-> s.kind, state |-> s.state, v |-> s.v]

\* a callback that catches the rejection of its accumulator and goes on
ReducerBodySwallow(k, fn, prev) ==
    CASE prev.state = "fulfilled" -> CallStep(k, fn, prev.v)
      [] OTHER                    -> CallStep(k, fn, Undefined)

\* the body of the reducer callback once its await is over: a rejected
\* previousOutput is rethrown by the await, otherwise fn is called on the
\* awaited value
ReducerBody(k, fn, prev) ==
    CASE prev.state = "rejected"  -> [called |-> FALSE, kind |-> "throw", state |-> "none", v |-> prev.v]
      [] prev.state = "fulfilled" -> CallStep(k, fn, prev.v)
      [] OTHER                    -> CallStep(k, fn, PromiseObject)

\* what the reduce hands back: the accumulator after the last callback, which
\* is the initial value itself when there is no callback
ReduceResult(n) ==
    IF n = 0 THEN [kind |-> "value", v |-> input]
             ELSE [kind |-> "promise", k |-> n]

\* the composed function is called: reduce runs every callback up to its
\* first await, synchronously, and returns the last accumulator
PipeCall ==
    /\ pcPipe = "start"
    /\ pcPipe' = "called"
    /\ wrapper' = [k \in 1..Len(fns) |-> "suspended"]
    /\ promise' = [k \in 1..Len(fns) |-> Pending]
    /\ stepPromise' = [k \in 1..Len(fns) |-> Pending]
    /\ returned' = ReduceResult(Len(fns))
    /\ UNCHANGED <<fns, input, invoked, outcome, stepVars, mapVars, valVars, srvVars, hookVars>>

\* the k-th callback resumes after its await
Resume(k) ==
    /\ pcPipe = "called"
    /\ wrapper[k] = "suspended"
    /\ AwaitReady(k)
    /\ LET prev == PreviousOutput(k)
           r == ReducerBody(k, fns[k], prev)
       IN  /\ invoked' = IF r.called THEN Append(invoked, k) ELSE invoked
           /\ CASE r.kind = "return" ->
                     /\ promise' = [promise EXCEPT ![k] = Fulfilled(r.v)]
                     /\ wrapper' = [wrapper EXCEPT ![k] = "done"]
                     /\ UNCHANGED stepPromise
                [] r.kind = "throw" ->
                     /\ promise' = [promise EXCEPT ![k] = Rejected(r.v)]
                     /\ wrapper' = [wrapper EXCEPT ![k] = "done"]
                     /\ UNCHANGED stepPromise
                [] r.kind = "promise" ->
                     /\ promise' = promise
                     /\ wrapper' = [wrapper EXCEPT ![k] = "locked"]
                     /\ stepPromise' = [stepPromise EXCEPT ![k] = [state |-> r.state, v |-> r.v]]
    /\ UNCHANGED <<fns, input, pcPipe, returned, outcome, stepVars, mapVars, valVars, srvVars, hookVars>>

\* the promise an asynchronous step returned settles, and the callback's
\* promise, resolved with it, settles the same way
Settle(k) ==
    /\ pcPipe = "called"
    /\ wrapper[k] = "locked"
    /\ promise' = [promise EXCEPT ![k] = stepPromise[k]]
    /\ wrapper' = [wrapper EXCEPT ![k] = "done"]
    /\ UNCHANGED <<fns, input, pcPipe, stepPromise, invoked, returned, outcome, stepVars, mapVars, valVars, srvVars, hookVars>>

\* the caller's `await pipe(...)(input)`
AwaitResult(ret) ==
    IF ret.kind = "value" THEN [kind |-> "value", v |-> ret.v]
    ELSE IF promise[ret.k].state = "fulfilled"
         THEN [kind |-> "value", v |-> promise[ret.k].v]
         ELSE [kind |-> "error", v |-> promise[ret.k].v]

Deliver ==
    /\ pcPipe = "called"
    /\ outcome.kind = "none"
    /\ returned.kind = "promise" => promise[returned.k].state # "pending"
    /\ outcome' = AwaitResult(returned)
    /\ UNCHANGED <<fns, input, pcPipe, wrapper, promise, stepPromise, invoked, returned, stepVars, mapVars, valVars, srvVars, hookVars>>

Inputs == {Num(0), Num(1), Num(2)}

StepLists == UNION {[1..n -> StepNames] : n \in 0..MaxSteps}

\* no call of a step or of applyFilters is under way
StepsIdle ==
    /\ heap = << >>
    /\ cur = Undefined
    /\ op = [name |-> "none"]
    /\ arg = Undefined
    /\ argBefore = Undefined
    /\ retval = Undefined
    /\ err = "none"
    /\ ncalls = 0

\* no call of mapKeysWith is under way
MapIdle ==
    /\ mkData = << >>
    /\ mkContract = << >>
    /\ mkMapped = [done |-> FALSE]

\* no call of a validator is under way
ValIdle ==
    /\ vModel = Undefined
    /\ vList = Undefined
    /\ history = << >>

\* no request has reached the server
SrvIdle == reqs = << >>

\* no integration test is under way
HooksIdle ==
    /\ processes = << >>
    /\ childProcess = << >>
    /\ pcBeforeAll = "idle"
    /\ pcAfterAll = "idle"
    /\ exitsSeen = {}
    /\ scenarios = 0

\* no pipe is under way
PipeIdle ==
    /\ fns = << >>
    /\ input = Undefined
    /\ pcPipe = "idle"
    /\ wrapper = << >>
    /\ promise = << >>
    /\ stepPromise = << >>
    /\ invoked = << >>
    /\ returned = [kind |-> "none"]
    /\ outcome = [kind |-> "none"]

InitPipe ==
    /\ SrvIdle
    /\ HooksIdle
    /\ StepsIdle
    /\ MapIdle
    /\ ValIdle
    /\ fns \in StepLists
    /\ input \in Inputs
    /\ pcPipe = "start"
    /\ wrapper = << >>
    /\ promise = << >>
    /\ stepPromise = << >>
    /\ invoked = << >>
    /\ returned = [kind |-> "none"]
    /\ outcome = [kind |-> "none"]

NextPipe ==
    \/ PipeCall
    \/ \E k \in 1..Len(fns) : Resume(k)
    \/ \E k \in 1..Len(fns) : Settle(k)
    \/ Deliver

SpecPipe == InitPipe /\ [][NextPipe]_vars

---------------------------------------------------------------------------
(* Calls of the envelope steps and of applyFilters *)

\* the configuration of the /stores handler
StoresConfig ==
    Obj(<< <<"host", Str("http://localhost:3010")>>,
           <<"endpoint", Str("data")>>,
           <<"method", Str("GET")>>,
           <<"headers", Obj(<< <<"content-type", Str("application/json")>> >>)>>,
           <<"contract", Obj(<< <<"type", Str("class")>>,
                                <<"description", Str("report")>>,
                                <<"location", Str("address")>>,
                                <<"distance", Str("range")>> >>)>>,
           <<"filters", Arr(<<Fn("distanceLessThan200")>>)>> >>)

\* the configuration of the composeRequest test
TestConfig ==
    Obj(<< <<"endpoint", Str("foo")>>,
           <<"host", Str("http://localhost:3333")>>,
           <<"method", Str("GET")>>,
           <<"headers", Obj(<< <<"content-type", Str("application/json")>> >>)>> >>)

\* lift's default configuration and body: {}
Empty == Obj(<< >>)

\* the envelopes lifted: lift(config), lift(config, body) and lift()
Envelopes ==
    {lift(StoresConfig, Empty), lift(StoresConfig, Str(JsonText)),
     lift(TestConfig, Empty), lift(Empty, Empty)}

Store(class, report, address, range) ==
    Obj(<< <<"type", Str("store")>>, <<"class", Str(class)>>, <<"report", Str(report)>>,
           <<"address", Str(address)>>, <<"range", Num(range)>> >>)

\* what the stub answers to GET /data
StubData ==
    Arr(<< Store("dog", "Nice dog store in downtown Toronto", "203 King street West", 100),
           Store("cat", "Nice cat store in downtown Toronto", "200 Wellington street West", 50),
           Store("dog", "Nice alternative dog store in downtown Toronto", "203 King street West", 220),
           Store("barber shop", "Nice barber shop downtown Toronto", "20 King street West", 10) >>)

\* the answers of the upstream: the stub's array, one record, or a failure
\* of the transport
Replies ==
    {[ok |-> TRUE, body |-> StubData],
     [ok |-> TRUE, body |-> Store("dog", "Nice dog store in downtown Toronto", "203 King street West", 100)],
     [ok |-> FALSE, body |-> Undefined]}

\* the uses of setWith: the filter stage of the handler, the JSON.parse of
\* the test, and the identity on a path that exists, on one that does not
\* and on one that runs through a string
SetWithCalls ==
    {<<DataMappedResponse, [name |-> "applyFilters", filters |-> <<"distanceLessThan200">>]>>,
     <<<<"event", "body">>, [name |-> "JSON.parse"]>>,
     <<<<"event", "body">>, [name |-> "identity"]>>,
     <<<<"meta", "tag">>, [name |-> "identity"]>>,
     <<<<"event", "body", "a">>, [name |-> "identity"]>>}

\* the rows of the applyFilters test, and rows with a distance
Rows ==
    {Obj(<< <<"x", Num(1)>>, <<"y", Num(2)>> >>),
     Obj(<< <<"x", Num(5)>>, <<"y", Num(6)>> >>),
     Obj(<< <<"x", Num(3)>>, <<"distance", Num(100)>> >>),
     Obj(<< <<"x", Num(3)>>, <<"distance", Num(220)>> >>),
     Obj(<< <<"x", Num(5)>>, <<"distance", Num(50)>> >>)}

RowLists == UNION {[1..n -> Rows] : n \in 0..MaxRows}
FilterLists == UNION {[1..n -> Predicates] : n \in 0..MaxFilters}

\* a call: its outcome is recorded, and the value returned is what the next
\* call is handed
Call(o, result) ==
    /\ err = "none"
    /\ \E out \in {result} :
          /\ op' = o
          /\ arg' = cur
          /\ argBefore' = DeepVal(heap, cur)
          /\ heap' = out.h
          /\ retval' = out.ret
          /\ err' = out.err
          /\ cur' = IF out.err = "none" THEN out.ret ELSE cur
          /\ ncalls' = ncalls + 1
    /\ UNCHANGED <<pipeVars, mapVars, valVars, srvVars, hookVars>>

OnEnvelope == IsPlainObject(heap, cur) /\ ncalls < MaxCalls
OnRows == IsArray(heap, cur) /\ ncalls = 0

ComposeRequest ==
    /\ OnEnvelope
    /\ Call([name |-> "composeRequest", path |-> DataRequest], composeRequest(heap, cur))

MakeRequest ==
    /\ OnEnvelope
    /\ \E reply \in Replies :
          Call([name |-> "makeRequest", path |-> DataResponseBody], makeRequest(heap, cur, reply))

MapResponse ==
    /\ OnEnvelope
    /\ Call([name |-> "mapResponse", path |-> DataMappedResponse], mapResponse(heap, cur))

CreateResult ==
    /\ OnEnvelope
    /\ Call([name |-> "createResult", path |-> Result], createResult(heap, cur))

SetWith ==
    /\ OnEnvelope
    /\ \E c \in SetWithCalls :
          Call([name |-> "setWith", path |-> c[1], modifier |-> c[2]],
               setWith(c[1], c[2], heap, cur))

ApplyFilters ==
    /\ OnRows
    /\ \E filters \in FilterLists :
          Call([name |-> "applyFilters", filters |-> filters], applyFilters(filters, heap, cur))

InitSteps ==
    /\ SrvIdle
    /\ HooksIdle
    /\ PipeIdle
    /\ MapIdle
    /\ ValIdle
    /\ \E lit \in Envelopes \cup {Arr(rows) : rows \in RowLists} :
          LET a == Alloc(<< >>, lit)
          IN  /\ heap = a.h
              /\ cur = a.v
    /\ op = [name |-> "none"]
    /\ arg = Undefined
    /\ argBefore = Undefined
    /\ retval = Undefined
    /\ err = "none"
    /\ ncalls = 0

NextSteps ==
    \/ ComposeRequest
    \/ MakeRequest
    \/ MapResponse
    \/ CreateResult
    \/ SetWith
    \/ ApplyFilters

SpecSteps == InitSteps /\ [][NextSteps]_vars

---------------------------------------------------------------------------
(* One call of mapKeysWith(data, contract) *)

\* the keys of the records: three ordinary names, and a name that every
\* object literal inherits
RecordKeys == <<"a", "b", "c", "constructor">>
\* the value a record holds under its i-th key: one value per key
RecordValue(i) == Num(i)

RECURSIVE RecordOf(_, _)
\* the record with the keys of RecordKeys whose index is in `on`
RecordOf(on, i) ==
    IF i > Len(RecordKeys) THEN << >>
    ELSE (IF i \in on THEN <<<<RecordKeys[i], RecordValue(i)>>>> ELSE << >>) \o RecordOf(on, i + 1)

Records == {RecordOf(on, 1) : on \in SUBSET (1..Len(RecordKeys))}

OutputNames == {"x", "y", "undefined"}
InputNames == {"a", "b"}

\* the contracts: up to MaxContract entries output name -> input name, no
\* output name twice
Contracts ==
    UNION {{c \in [1..n -> OutputNames \X {Str(i) : i \in InputNames}] :
               \A i, j \in 1..n : i # j => c[i][1] # c[j][1]} : n \in 0..MaxContract}

CallMapKeysWith ==
    /\ ~mkMapped.done
    /\ mkMapped' = [done |-> TRUE, entries |-> mapKeysWith(mkData, mkContract)]
    /\ UNCHANGED <<mkData, mkContract, pipeVars, stepVars, valVars, srvVars, hookVars>>

InitMapKeys ==
    /\ SrvIdle
    /\ HooksIdle
    /\ PipeIdle
    /\ StepsIdle
    /\ ValIdle
    /\ mkData \in Records
    /\ mkContract \in Contracts
    /\ mkMapped = [done |-> FALSE]

NextMapKeys == CallMapKeysWith

SpecMapKeys == InitMapKeys /\ [][NextMapKeys]_vars

---------------------------------------------------------------------------
(* More JavaScript values: null, booleans, strings as their characters *)

Null == [t |-> "null"]
Bool(b) == [t |-> "boolean", b |-> b]
\* a string whose characters are computed on; Str is a string used as a name
Text(cs) == [t |-> "string", cs |-> cs]
IsText(v) == v.t = "string" /\ "cs" \in DOMAIN v
\* the object Object(v) makes of a primitive
Wrapper(v) == [t |-> "wrapper", of |-> v]

\* typeof v
typeof(h, v) ==
    CASE v.t \in {"number", "NaN"}                       -> "number"
      [] v.t \in {"ref", "null", "url", "error", "promise", "wrapper"} -> "object"
      [] OTHER                                           -> v.t

\* the keys "0", "1", ... of n indices
IndexKeys(n) == [i \in 1..n |-> ToString(i - 1)]

\* Object.keys(v) for a value that is not null or undefined: the own keys of
\* an object, the indices of an array or of a string, none for the rest
ObjectKeys(h, v) ==
    IF IsPlainObject(h, v) THEN [i \in 1..Len(h[v.id].entries) |-> h[v.id].entries[i][1]]
    ELSE IF IsArray(h, v) THEN IndexKeys(Len(h[v.id].elems))
    ELSE IF IsText(v) THEN IndexKeys(Len(v.cs))
    ELSE << >>

\* the element of a sequence under the key of an index, Undefined under any other key
AtIndexKey(elems, key) ==
    IF \E i \in 1..Len(elems) : ToString(i - 1) = key
    THEN elems[CHOOSE i \in 1..Len(elems) : ToString(i - 1) = key]
    ELSE Undefined

\* v[key] for a value that is not null or undefined; an object literal also
\* answers for what it inherits
Member(h, v, key) ==
    IF IsPlainObject(h, v) THEN Lookup(h[v.id].entries, key)
    ELSE IF IsArray(h, v) THEN AtIndexKey(h[v.id].elems, key)
    ELSE IF IsText(v) THEN AtIndexKey([i \in 1..Len(v.cs) |-> Text(<<v.cs[i]>>)], key)
    ELSE Undefined

IsNullish(v) == v.t \in {"undefined", "null"}

\* the truth value a condition makes of v
Truthy(v) ==
    CASE v.t \in {"undefined", "null", "NaN"} -> FALSE
      [] v.t = "boolean"                      -> v.b
      [] v.t = "number"                       -> v.n # 0
      [] IsText(v)                            -> v.cs # << >>
      [] OTHER                                -> TRUE

---------------------------------------------------------------------------
(* Number(v) and the comparison a < b *)

DecimalDigits == <<"0", "1", "2", "3", "4", "5", "6", "7", "8", "9">>
IsDigit(c) == \E d \in 1..10 : DecimalDigits[d] = c
DigitValue(c) == (CHOOSE d \in 1..10 : DecimalDigits[d] = c) - 1
WhiteSpace == {" "}

RECURSIVE TrimLeft(_)
TrimLeft(cs) == IF cs # << >> /\ Head(cs) \in WhiteSpace THEN TrimLeft(Tail(cs)) ELSE cs
RECURSIVE TrimRight(_)
TrimRight(cs) ==
    IF cs # << >> /\ cs[Len(cs)] \in WhiteSpace THEN TrimRight(SubSeq(cs, 1, Len(cs) - 1)) ELSE cs

RECURSIVE DecimalValue(_)
\* the value of a sequence of decimal digits
DecimalValue(cs) ==
    IF cs = << >> THEN 0
    ELSE 10 * DecimalValue(SubSeq(cs, 1, Len(cs) - 1)) + DigitValue(cs[Len(cs)])

\* the number a string denotes: 0 for an empty or blank string, the value
\* of a signed decimal integer, NaN for any other text
StringToNumber(cs) ==
    LET s == TrimRight(TrimLeft(cs))
        signed == s # << >> /\ Head(s) \in {"-", "+"}
        digits == IF signed THEN Tail(s) ELSE s
    IN  IF s = << >> THEN Num(0)
        ELSE IF digits # << >> /\ \A i \in 1..Len(digits) : IsDigit(digits[i])
        THEN Num(IF Head(s) = "-" THEN 0 - DecimalValue(digits) ELSE DecimalValue(digits))
        ELSE NaN

\* Number(v)
ToNumber(h, v) ==
    CASE v.t = "number"  -> v
      [] v.t = "null"    -> Num(0)
      [] v.t = "boolean" -> Num(IF v.b THEN 1 ELSE 0)
      [] IsText(v)       -> StringToNumber(v.cs)
      [] IsArray(h, v)   ->
            LET elems == h[v.id].elems
            IN  IF elems = << >> THEN Num(0)
                ELSE IF Len(elems) = 1 /\ IsNullish(elems[1]) THEN Num(0)
                ELSE IF Len(elems) = 1 /\ elems[1].t = "number" THEN elems[1]
                ELSE IF Len(elems) = 1 /\ IsText(elems[1]) THEN StringToNumber(elems[1].cs)
                ELSE NaN
      [] OTHER           -> NaN

\* the code unit of a character
CharCode(c) ==
    CASE c = " " -> 32
      [] c = "+" -> 43
      [] c = "-" -> 45
      [] IsDigit(c) -> 48 + DigitValue(c)
      [] c = "a" -> 97
      [] c = "b" -> 98
      [] c = "c" -> 99

RECURSIVE StringLess(_, _)
\* a < b for two strings: by code units, a proper prefix first
StringLess(a, b) ==
    IF b = << >> THEN FALSE
    ELSE IF a = << >> THEN TRUE
    ELSE IF Head(a) # Head(b) THEN CharCode(Head(a)) < CharCode(Head(b))
    ELSE StringLess(Tail(a), Tail(b))

\* x < y for two numbers, false when either is NaN
NumberLess(x, y) == IsNum(x) /\ IsNum(y) /\ x.n < y.n

\* (a, b) => a < b: two strings are compared as strings, anything else as numbers
lessUncoerced(h, a, b) ==
    IF IsText(a) /\ IsText(b) THEN StringLess(a.cs, b.cs)
    ELSE NumberLess(ToNumber(h, a), ToNumber(h, b))

\* (a, b) => Number(a) < Number(b), the entry 'less than' of the registry
lessThan(h, a, b) == NumberLess(ToNumber(h, a), ToNumber(h, b))

---------------------------------------------------------------------------
(* validators.js: isValidInterface *)

\* a check that takes a key the model does not declare for a match
checkTypeLenient(h, inp, model, key) ==
    LET expectedType == Member(h, model, key)
    IN  IF ToKey(expectedType) = "array"
        THEN IsArray(h, Member(h, inp, key))
        ELSE expectedType = Undefined \/ Str(typeof(h, Member(h, inp, key))) = expectedType

\* the callback of checkTypeWith(input, model) on a key
checkTypeWith(h, inp, model, key) ==
    LET expectedType == Member(h, model, key)
    IN  IF ToKey(expectedType) = "array"
        THEN IsArray(h, Member(h, inp, key))
        ELSE Str(typeof(h, Member(h, inp, key))) = expectedType

\* a check of a record that goes through the keys of the model, so that a
\* record lacking a modelled field fails
isObjectValidInterfaceComplete(h, inp, model) ==
    IF IsNullish(inp) THEN Throws(h, "TypeError")
    ELSE LET keys == ObjectKeys(h, model)
         IN  Returns(h, Bool(\A i \in 1..Len(keys) : checkTypeWith(h, inp, model, keys[i])))

\* isObjectValidInterface(input, model); Object.keys throws on null and undefined
isObjectValidInterface(h, inp, model) ==
    IF IsNullish(inp) THEN Throws(h, "TypeError")
    ELSE LET keys == ObjectKeys(h, inp)
         IN  Returns(h, Bool(\A i \in 1..Len(keys) : checkTypeWith(h, inp, model, keys[i])))

RECURSIVE everyValid(_, _, _)
\* input.every(element => isObjectValidInterface(element, model)): in index
\* order, up to the first element that fails or throws
everyValid(h, elems, model) ==
    IF elems = << >> THEN Returns(h, Bool(TRUE))
    ELSE LET r == isObjectValidInterface(h, Head(elems), model)
         IN  IF r.err # "none" \/ r.ret = Bool(FALSE) THEN r
             ELSE everyValid(h, Tail(elems), model)

\* isValidInterface(input, model)
isValidInterface(h, inp, model) ==
    IF IsArray(h, inp) THEN everyValid(h, h[inp.id].elems, model)
    ELSE isObjectValidInterface(h, inp, model)

---------------------------------------------------------------------------
(* validators.js: substituteOperators and complyWith *)

\* the registry: const operators = { 'less than': (a, b) => Number(a) < Number(b) }
operators == << <<"less than", Fn("lessThan")>> >>

\* a substitution that leaves the operator as it is
substituteOperatorKeep(h, restriction) == h

\* restriction.operator = operators[restriction.operator], on the cell of
\* the restriction
substituteOperator(h, restriction) ==
    LET entries == h[restriction.id].entries
        resolved == Lookup(operators, ToKey(GetKey(entries, "operator")))
    IN  IF ~IsPlainObject(h, restriction) THEN h
        ELSE [h EXCEPT ![restriction.id] = ObjectCell(PutKey(entries, "operator", resolved))]

RECURSIVE substituteEach(_, _)
\* the walk of map over the restrictions, in index order
substituteEach(h, elems) ==
    IF elems = << >> THEN h
    ELSE substituteEach(substituteOperator(h, Head(elems)), Tail(elems))

\* a substituteOperators that works on the list it is handed
substituteOperatorsInPlace(h, restrictions) ==
    LET elems == h[restrictions.id].elems
        h1 == substituteEach(h, elems)
    IN  IF ~IsArray(h, restrictions) THEN Throws(h, "TypeError")
        ELSE IF \E i \in 1..Len(elems) : IsNullish(elems[i]) THEN Throws(h, "TypeError")
        ELSE Returns(Append(h1, ArrayCell(elems)), Ref(Len(h1) + 1))

\* substituteOperators(restrictions): the restrictions of a deep clone, each
\* with its operator resolved, in a new array
substituteOperators(h, restrictions) ==
    LET c == cloneDeep(h, restrictions)
        elems == c.h[c.v.id].elems
        h1 == substituteEach(c.h, elems)
    IN  IF ~IsArray(h, restrictions) THEN Throws(h, "TypeError")
        ELSE IF \E i \in 1..Len(elems) : IsNullish(elems[i]) THEN Throws(c.h, "TypeError")
        ELSE Returns(Append(h1, ArrayCell(elems)), Ref(Len(h1) + 1))

RECURSIVE Join(_)
\* the characters of a string, as one name
Join(cs) == IF cs = << >> THEN "" ELSE Head(cs) \o Join(Tail(cs))

\* the property key a value makes
PropertyKey(v) ==
    CASE IsText(v)        -> Join(v.cs)
      [] v.t = "number"   -> ToString(v.n)
      [] v.t = "null"     -> "null"
      [] v.t = "NaN"      -> "NaN"
      [] v.t = "boolean"  -> IF v.b THEN "true" ELSE "false"
      [] OTHER            -> ToKey(v)

\* restriction.operator(a, b): a call of what the operator field holds, with
\* the restriction as its receiver
CallOperator(h, restriction, a, b) ==
    LET f == Prop(h, restriction, "operator")
    IN  IF f.t # "function" THEN Throws(h, "TypeError")
        ELSE CASE f.f = "lessThan" -> Returns(h, Bool(lessThan(h, a, b)))
               [] f.f = "Object"   -> Returns(h, IF IsRef(a) THEN a ELSE Wrapper(a))
               [] f.f \in {"toString", "toLocaleString"} -> Returns(h, Str("[object Object]"))
               [] f.f = "valueOf"  -> Returns(h, restriction)
               [] f.f \in {"hasOwnProperty", "propertyIsEnumerable"} ->
                     Returns(h, Bool(HasKey(h[restriction.id].entries, PropertyKey(a))))
               [] OTHER            -> Returns(h, Bool(FALSE))

\* the callback of applyOperator(input) on a restriction
applyOperator(h, inp, restriction) ==
    IF IsNullish(inp) THEN Throws(h, "TypeError")
    ELSE LET value == Member(h, inp, ToKey(Prop(h, restriction, "property")))
         IN  CallOperator(h, restriction, value, Prop(h, restriction, "value"))

RECURSIVE everyRestriction(_, _, _)
\* formattedRestrictions.every(applyOperator(input)): in index order, up to
\* the first restriction that fails or throws
everyRestriction(h, inp, formatted) ==
    IF formatted = << >> THEN Returns(h, Bool(TRUE))
    ELSE LET r == applyOperator(h, inp, Head(formatted))
         IN  IF r.err # "none" THEN r
             ELSE IF ~Truthy(r.ret) THEN Returns(h, Bool(FALSE))
             ELSE everyRestriction(h, inp, Tail(formatted))

RECURSIVE everyElement(_, _, _)
\* input.every(element => formattedRestrictions.every(applyOperator(element)))
everyElement(h, elems, formatted) ==
    IF elems = << >> THEN Returns(h, Bool(TRUE))
    ELSE LET r == everyRestriction(h, Head(elems), formatted)
         IN  IF r.err # "none" \/ r.ret = Bool(FALSE) THEN r
             ELSE everyElement(h, Tail(elems), formatted)

\* a complyWith that takes every input for a single record
complyWithSingle(h, inp, restrictions) ==
    LET s == substituteOperators(h, restrictions)
    IN  IF s.err # "none" THEN s
        ELSE everyRestriction(s.h, inp, s.h[s.ret.id].elems)

\* complyWith(input, restrictions)
complyWith(h, inp, restrictions) ==
    LET s == substituteOperators(h, restrictions)
        formatted == s.h[s.ret.id].elems
    IN  IF s.err # "none" THEN s
        ELSE IF IsArray(s.h, inp) THEN everyElement(s.h, s.h[inp.id].elems, formatted)
        ELSE everyRestriction(s.h, inp, formatted)

---------------------------------------------------------------------------
(* Calls of the validators *)

\* the model of the isValidInterface tests, the models of the feature, and {}
TestModel ==
    Obj(<< <<"a", Str("string")>>, <<"b", Str("object")>>, <<"c", Str("boolean")>>,
           <<"d", Str("number")>>, <<"e", Str("array")>> >>)
DistanceModel == Obj(<< <<"distance", Str("number")>> >>)
BodyModel == Obj(<< <<"metadata", Str("object")>>, <<"data", Str("array")>> >>)
Models == {TestModel, DistanceModel, BodyModel, Empty}

\* the record of the isValidInterface tests
TestRecord ==
    Obj(<< <<"a", Text(<<"f", "o", "o">>)>>, <<"b", Obj(<< >>)>>, <<"c", Bool(TRUE)>>,
           <<"d", Num(2)>>, <<"e", Arr(<< >>)>> >>)

Distance(v) == Obj(<< <<"distance", v>> >>)

\* records for the models: complete, partial, empty, with a value of
\* another type, with a key no model declares
InterfaceRecords ==
    {TestRecord,
     Empty,
     Obj(<< <<"a", Text(<<"f", "o", "o">>)>> >>),
     Obj(<< <<"d", Text(<<"2">>)>> >>),
     Obj(<< <<"e", Obj(<< >>)>> >>),
     Obj(<< <<"b", Arr(<< >>)>> >>),
     Obj(<< <<"b", Null>> >>),
     Obj(<< <<"z", Num(1)>> >>),
     Obj(<< <<"constructor", Num(1)>> >>),
     Obj(<< <<"metadata", Obj(<< >>)>>, <<"data", Arr(<<Distance(Num(100))>>)>> >>),
     Distance(Num(100)),
     Distance(Text(<<"1", "0", "0">>))}

\* what else a sequence may hold
OtherElements == {Null, Num(5)}

InterfaceInputs ==
    InterfaceRecords
    \cup {Arr(elems) : elems \in UNION {[1..n -> InterfaceRecords \cup OtherElements] : n \in 0..MaxElems}}

\* the records handed to complyWith: the distances of its test, a distance
\* given as text, a null distance and no distance
RestrictedRecords ==
    {Distance(Num(100)), Distance(Num(222)), Distance(Text(<<"9">>)), Distance(Null), Empty}

RestrictedInputs ==
    RestrictedRecords
    \cup {Arr(elems) : elems \in UNION {[1..n -> RestrictedRecords] : n \in 0..MaxElems}}

Restriction(property, operator, value) ==
    Obj(<< <<"property", Str(property)>>, <<"operator", Str(operator)>>, <<"value", value>> >>)

\* the restriction of the tests and of the feature, one with a lower
\* threshold, one with an operator the registry does not have and one with
\* an operator named after a member of Object.prototype
LessThan200 == Restriction("distance", "less than", Text(<<"2", "0", "0">>))
LessThan10 == Restriction("distance", "less than", Text(<<"1", "0">>))
GreaterThan100 == Restriction("distance", "greater than", Text(<<"1", "0", "0">>))
Constructor200 == Restriction("distance", "constructor", Text(<<"2", "0", "0">>))

RestrictionLists ==
    {Arr(<< >>),
     Arr(<<LessThan200>>),
     Arr(<<LessThan200, LessThan10>>),
     Arr(<<LessThan10, LessThan200>>),
     Arr(<<GreaterThan100>>),
     Arr(<<LessThan200, GreaterThan100>>),
     Arr(<<LessThan10, GreaterThan100>>),
     Arr(<<Constructor200>>)}

\* the operands handed to a resolved operator: the numbers of the test,
\* numerals, other text, and values that are no text
Operands ==
    {Num(1), Num(2), Num(3), Num(100),
     Text(<<"9">>), Text(<<"1", "0">>), Text(<<"2", "0", "0">>), Text(<<"-", "5">>),
     Text(<<" ", "7">>), Text(<< >>), Text(<<" ">>), Text(<<"a", "b", "c">>),
     Undefined, Null, Bool(TRUE)}

\* a call of a validator: its outcome is recorded; the input, the model and
\* the list stay with the caller
Check(o, out) ==
    /\ ncalls < MaxChecks
    /\ op' = o
    /\ arg' = vList
    /\ argBefore' = DeepVal(heap, vList)
    /\ heap' = out.h
    /\ retval' = out.ret
    /\ err' = out.err
    /\ ncalls' = ncalls + 1
    /\ history' = Append(history, [name |-> o.name, ret |-> DeepVal(out.h, out.ret), err |-> out.err])
    /\ UNCHANGED <<cur, vModel, vList, pipeVars, mapVars, srvVars, hookVars>>

IsValidInterface ==
    /\ vModel # Undefined
    /\ ncalls = 0
    /\ Check([name |-> "isValidInterface"], isValidInterface(heap, cur, vModel))

ComplyWith ==
    /\ vList # Undefined
    /\ cur # Undefined
    /\ Check([name |-> "complyWith"], complyWith(heap, cur, vList))

SubstituteOperators ==
    /\ vList # Undefined
    /\ Check([name |-> "substituteOperators"], substituteOperators(heap, vList))

\* the caller invokes the operator of a restriction substituteOperators returned
InvokeOperator ==
    /\ ncalls = 1
    /\ op.name = "substituteOperators"
    /\ err = "none"
    /\ \E i \in 1..Len(heap[retval.id].elems), a \in Operands, b \in Operands :
          LET restriction == heap[retval.id].elems[i]
          IN  Check([name |-> "operator", of |-> Prop(heap, restriction, "operator"),
                     a |-> a, b |-> b],
                    CallOperator(heap, restriction, a, b))

\* the records of a call not yet made
NoCall ==
    /\ op = [name |-> "none"]
    /\ arg = Undefined
    /\ argBefore = Undefined
    /\ retval = Undefined
    /\ err = "none"
    /\ ncalls = 0
    /\ history = << >>

InitInterface ==
    /\ SrvIdle
    /\ HooksIdle
    /\ PipeIdle
    /\ MapIdle
    /\ NoCall
    /\ vList = Undefined
    /\ \E inp \in InterfaceInputs, model \in Models :
          LET a == Alloc(<< >>, inp)
              m == Alloc(a.h, model)
          IN  /\ heap = m.h
              /\ cur = a.v
              /\ vModel = m.v

NextInterface == IsValidInterface

SpecInterface == InitInterface /\ [][NextInterface]_vars

InitRestrictions ==
    /\ SrvIdle
    /\ HooksIdle
    /\ PipeIdle
    /\ MapIdle
    /\ NoCall
    /\ vModel = Undefined
    /\ \E inp \in RestrictedInputs, list \in RestrictionLists :
          LET a == Alloc(<< >>, inp)
              l == Alloc(a.h, list)
          IN  /\ heap = l.h
              /\ cur = a.v
              /\ vList = l.v

NextRestrictions ==
    \/ ComplyWith
    \/ SubstituteOperators

SpecRestrictions == InitRestrictions /\ [][NextRestrictions]_vars

InitOperator ==
    /\ SrvIdle
    /\ HooksIdle
    /\ PipeIdle
    /\ MapIdle
    /\ NoCall
    /\ vModel = Undefined
    /\ cur = Undefined
    /\ \E list \in RestrictionLists :
          LET l == Alloc(<< >>, list)
          IN  /\ heap = l.h
              /\ vList = l.v

NextOperator ==
    \/ SubstituteOperators
    \/ InvokeOperator

SpecOperator == InitOperator /\ [][NextOperator]_vars

---------------------------------------------------------------------------
(* The /stores handler of the server *)

\* the names tools.js exports
ToolsExports ==
    {"pipe", "lift", "composeRequest", "mapKeysWith", "mapResponse", "createResult",
     "applyFilters", "setWith"}
\* the names network.js exports
NetworkExports == {"makeRequest"}

\* the steps the handler hands to pipe, by the names it imports them under
StoresPipeline ==
    <<"composeRequest", "makeRequest", "mapResponse", "filterResponse", "createResult">>

\* the value a name destructured from require('./tools') or
\* require('./network') is bound to: undefined for a name not exported
Imported(name) ==
    IF name \in ToolsExports \cup NetworkExports THEN Fn(name) ELSE Undefined

\* fn(payload) for a synchronous step of the pipeline; calling a value that
\* is no function throws
CallImported(fn, h, payload) ==
    IF fn.t # "function" THEN Throws(h, "TypeError")
    ELSE CASE fn.f = "composeRequest" -> composeRequest(h, payload)
           [] fn.f = "mapResponse"    -> mapResponse(h, payload)
           [] fn.f = "createResult"   -> createResult(h, payload)

RECURSIVE ToJson(_)
\* what res.json sends of a value: a property holding undefined or a
\* function is left out, such an element of an array is sent as null
ToJson(dv) ==
    LET Sent(e) == e[2].t \notin {"undefined", "function"}
        kept == SelectSeq(dv.entries, Sent)
    IN  CASE dv.t = "object" -> Obj([i \in 1..Len(kept) |-> <<kept[i][1], ToJson(kept[i][2])>>])
          [] dv.t = "array"  ->
                Arr([i \in 1..Len(dv.elems) |->
                       IF dv.elems[i].t \in {"undefined", "function"} THEN Null
                       ELSE ToJson(dv.elems[i])])
          [] OTHER           -> dv

NoReply == [ok |-> FALSE, body |-> Null]
NotSent == [sent |-> FALSE]

\* a request not yet received
NoRequest ==
    [stage |-> "none", h |-> << >>, env |-> Undefined, k |-> 0, reply |-> NoReply,
     error |-> "none", response |-> NotSent]

Requests == 1..MaxRequests

\* GET /stores arrives: the handler builds its config, lifts it and calls
\* the composed function; the objects it creates are its own
Receive(r) ==
    /\ reqs[r].stage = "none"
    /\ LET a == Alloc(<< >>, lift(StoresConfig, Empty))
       IN  reqs' = [reqs EXCEPT ![r] = [reqs[r] EXCEPT !.stage = "running", !.h = a.h, !.env = a.v]]
    /\ UNCHANGED <<pipeVars, stepVars, mapVars, valVars, hookVars>>

\* the step the pipeline of request r runs next
NextStep(r) == StoresPipeline[reqs[r].k + 1]

\* the outcome of a step on the request: the pipeline goes on with the
\* envelope returned, or rejects with the error thrown
Outcome(q, out) ==
    IF out.err = "none"
    THEN [q EXCEPT !.h = out.h, !.env = out.ret, !.k = q.k + 1,
                   !.stage = IF q.k + 1 = Len(StoresPipeline) THEN "settled" ELSE "running"]
    ELSE [q EXCEPT !.h = out.h, !.error = out.err, !.stage = "settled"]

\* a synchronous step of the pipeline runs
RunStep(r) ==
    /\ reqs[r].stage = "running"
    /\ NextStep(r) # "makeRequest"
    /\ \E out \in {CallImported(Imported(NextStep(r)), reqs[r].h, reqs[r].env)} :
          reqs' = [reqs EXCEPT ![r] = Outcome(reqs[r], out)]
    /\ UNCHANGED <<pipeVars, stepVars, mapVars, valVars, hookVars>>

\* makeRequest is called and awaits the upstream; without data.request it
\* rejects at once
SendUpstream(r) ==
    /\ reqs[r].stage = "running"
    /\ NextStep(r) = "makeRequest"
    /\ IF get(reqs[r].h, reqs[r].env, DataRequest, Undefined) = Undefined
       THEN \E out \in {makeRequest(reqs[r].h, reqs[r].env, NoReply)} :
               reqs' = [reqs EXCEPT ![r] = Outcome(reqs[r], out)]
       ELSE reqs' = [reqs EXCEPT ![r] = [reqs[r] EXCEPT !.stage = "waiting"]]
    /\ UNCHANGED <<pipeVars, stepVars, mapVars, valVars, hookVars>>

\* a server that keeps the answer of the upstream in a variable of the
\* module: a call that resumes is handed the answer another request got
\* before, when there is one
UpstreamReplyCached(r) ==
    /\ reqs[r].stage = "waiting"
    /\ \E reply \in Replies :
          LET earlier == {q \in Requests \ {r} : reqs[q].reply # NoReply}
              handed  == IF earlier = {} THEN reply
                         ELSE reqs[CHOOSE q \in earlier : TRUE].reply
          IN  \E out \in {makeRequest(reqs[r].h, reqs[r].env, handed)} :
                  reqs' = [reqs EXCEPT ![r] = Outcome([reqs[r] EXCEPT !.reply = reply], out)]
    /\ UNCHANGED <<pipeVars, stepVars, mapVars, valVars, hookVars>>

\* the upstream answers and makeRequest resumes; its clone of the envelope
\* is its own, so the call is applied as a whole here
UpstreamReply(r) ==
    /\ reqs[r].stage = "waiting"
    /\ \E reply \in Replies :
          \E out \in {makeRequest(reqs[r].h, reqs[r].env, reply)} :
              reqs' = [reqs EXCEPT ![r] = Outcome([reqs[r] EXCEPT !.reply = reply], out)]
    /\ UNCHANGED <<pipeVars, stepVars, mapVars, valVars, hookVars>>

\* a handler that sends the result of the envelope it has, whatever became
\* of the pipeline
FinishWithAnyResult(r) ==
    /\ reqs[r].stage = "settled"
    /\ \E response \in {[sent |-> TRUE,
                          body |-> ToJson(DeepVal(reqs[r].h, Prop(reqs[r].h, reqs[r].env, "result")))]} :
          reqs' = [reqs EXCEPT ![r] = [reqs[r] EXCEPT !.stage = "done", !.response = response]]
    /\ UNCHANGED <<pipeVars, stepVars, mapVars, valVars, hookVars>>

\* the handler's await is over: res.json(result) when the pipeline
\* fulfilled; when it rejected the handler's own promise rejects and nothing
\* is sent
Finish(r) ==
    /\ reqs[r].stage = "settled"
    /\ \E response \in {IF reqs[r].error = "none"
                           THEN [sent |-> TRUE,
                                 body |-> ToJson(DeepVal(reqs[r].h, Prop(reqs[r].h, reqs[r].env, "result")))]
                           ELSE NotSent} :
          reqs' = [reqs EXCEPT ![r] = [reqs[r] EXCEPT !.stage = "done", !.response = response]]
    /\ UNCHANGED <<pipeVars, stepVars, mapVars, valVars, hookVars>>

InitServer ==
    /\ PipeIdle
    /\ StepsIdle
    /\ MapIdle
    /\ ValIdle
    /\ HooksIdle
    /\ reqs = [r \in Requests |-> NoRequest]

NextServer ==
    \E r \in Requests :
        \/ Receive(r)
        \/ RunStep(r)
        \/ SendUpstream(r)
        \/ UpstreamReply(r)
        \/ Finish(r)

SpecServer == InitServer /\ [][NextServer]_vars

---------------------------------------------------------------------------
(* The hooks of the integration test: the servers it spawns and kills *)

\* the servers of the table available of runServer
Servers == {"app", "stub"}

\* the regular expressions of the table, word by word
Regex(n) ==
    IF n = "app" THEN <<"app", "magic", "happens", "on", "port">>
    ELSE <<"stub", "magic", "happens", "on", "port">>

\* regex.test(output): the expression occurs somewhere in the output
Test(regex, output) ==
    \E i \in 1..Len(output) :
        /\ i + Len(regex) - 1 <= Len(output)
        /\ SubSeq(output, i, i + Len(regex) - 1) = regex

\* what a server may write to its standard output: the line of its listen
\* callback, and some other line
Outputs(n) ==
    IF n = "app"
    THEN {<<"app", "magic", "happens", "on", "port", "3000">>, <<"starting", "app">>}
    ELSE {<<"stub", "magic", "happens", "on", "port", "3001">>, <<"starting", "stub">>}

\* no child process yet
NotSpawned ==
    [state |-> "none", stdout |-> {}, killCalled |-> FALSE, signal |-> FALSE, onExit |-> FALSE]

\* spawn(server.command, server.args)
Spawned == [NotSpawned EXCEPT !.state = "running"]

\* the body of killProcess on a child: kill() signals a process that still
\* runs, and the listener of 'exit' is attached after it
killProcess(child) ==
    [child EXCEPT !.killCalled = TRUE, !.signal = (child.state = "running"), !.onExit = TRUE]

\* the runner calls BeforeAll: runServer('app') spawns the app and the hook
\* awaits its promise
BeforeAll ==
    /\ pcBeforeAll = "pending"
    /\ childProcess' = [childProcess EXCEPT !["app"] = Spawned]
    /\ pcBeforeAll' = "awaitApp"
    /\ UNCHANGED <<processes, pcAfterAll, exitsSeen, scenarios>>
    /\ UNCHANGED <<pipeVars, stepVars, mapVars, valVars, srvVars>>

\* the listener of 'data' of server n on an output, matched telling whether
\* the promise of runServer is resolved by it: resolving the promise the
\* hook awaits resumes the hook, which records the process and goes on to
\* spawn the stub or to return
DataHandler(n, output, matched) ==
    LET written == [childProcess EXCEPT ![n].stdout = @ \cup {output}]
    IN  IF matched /\ n = "app" /\ pcBeforeAll = "awaitApp"
        THEN /\ processes' = Append(processes, n)
             /\ childProcess' = [written EXCEPT !["stub"] = Spawned]
             /\ pcBeforeAll' = "awaitStub"
        ELSE IF matched /\ n = "stub" /\ pcBeforeAll = "awaitStub"
        THEN /\ processes' = Append(processes, n)
             /\ childProcess' = written
             /\ pcBeforeAll' = "resolved"
        ELSE /\ childProcess' = written
             /\ UNCHANGED <<processes, pcBeforeAll>>

\* a listener of 'data' that resolves on whatever the server writes
OnDataAnyOutput(n) ==
    /\ childProcess[n].state = "running"
    /\ \E output \in Outputs(n) \ childProcess[n].stdout : DataHandler(n, output, TRUE)
    /\ UNCHANGED <<pcAfterAll, exitsSeen, scenarios>>
    /\ UNCHANGED <<pipeVars, stepVars, mapVars, valVars, srvVars>>

\* server n writes to its standard output and the listener of 'data' runs
OnData(n) ==
    /\ childProcess[n].state = "running"
    /\ \E output \in Outputs(n) \ childProcess[n].stdout :
          DataHandler(n, output, Test(Regex(n), output))
    /\ UNCHANGED <<pcAfterAll, exitsSeen, scenarios>>
    /\ UNCHANGED <<pipeVars, stepVars, mapVars, valVars, srvVars>>

\* the runner runs a scenario: after BeforeAll has resolved, before AfterAll
Scenario ==
    /\ pcBeforeAll = "resolved"
    /\ pcAfterAll = "pending"
    /\ scenarios < MaxScenarios
    /\ scenarios' = scenarios + 1
    /\ UNCHANGED <<processes, childProcess, pcBeforeAll, pcAfterAll, exitsSeen>>
    /\ UNCHANGED <<pipeVars, stepVars, mapVars, valVars, srvVars>>

\* the processes recorded
Recorded == {processes[i] : i \in 1..Len(processes)}

\* an AfterAll that does not wait for the processes it kills
AfterAllNoWait ==
    /\ pcBeforeAll = "resolved"
    /\ pcAfterAll = "pending"
    /\ childProcess' = [n \in Servers |-> IF n \in Recorded THEN killProcess(childProcess[n]) ELSE childProcess[n]]
    /\ exitsSeen' = Recorded
    /\ pcAfterAll' = "resolved"
    /\ UNCHANGED <<processes, pcBeforeAll, scenarios>>
    /\ UNCHANGED <<pipeVars, stepVars, mapVars, valVars, srvVars>>

\* the runner calls AfterAll once the scenarios are over: killProcess is
\* called on every process recorded, one after the other with nothing in
\* between, and the hook awaits the promises together
AfterAll ==
    /\ pcBeforeAll = "resolved"
    /\ pcAfterAll = "pending"
    /\ childProcess' = [n \in Servers |-> IF n \in Recorded THEN killProcess(childProcess[n]) ELSE childProcess[n]]
    /\ pcAfterAll' = IF Recorded = {} THEN "resolved" ELSE "waiting"
    /\ UNCHANGED <<processes, pcBeforeAll, exitsSeen, scenarios>>
    /\ UNCHANGED <<pipeVars, stepVars, mapVars, valVars, srvVars>>

\* server n ends and its 'exit' is emitted: a listener attached by then
\* resolves the promise of killProcess, and AfterAll returns when the
\* promises of all the processes recorded have resolved
Exit(n) ==
    /\ childProcess' = [childProcess EXCEPT ![n].state = "exited"]
    /\ IF childProcess[n].onExit
       THEN /\ exitsSeen' = exitsSeen \cup {n}
            /\ pcAfterAll' = IF pcAfterAll = "waiting" /\ Recorded \subseteq exitsSeen \cup {n}
                             THEN "resolved" ELSE pcAfterAll
       ELSE UNCHANGED <<exitsSeen, pcAfterAll>>
    /\ UNCHANGED <<processes, pcBeforeAll, scenarios>>
    /\ UNCHANGED <<pipeVars, stepVars, mapVars, valVars, srvVars>>

\* a server ends on its own
Crash(n) ==
    /\ childProcess[n].state = "running"
    /\ ~childProcess[n].signal
    /\ Exit(n)

\* a server ends on the signal of kill()
Terminate(n) ==
    /\ childProcess[n].state = "running"
    /\ childProcess[n].signal
    /\ Exit(n)

InitHooks ==
    /\ PipeIdle
    /\ StepsIdle
    /\ MapIdle
    /\ ValIdle
    /\ SrvIdle
    /\ processes = << >>
    /\ childProcess = [n \in Servers |-> NotSpawned]
    /\ pcBeforeAll = "pending"
    /\ pcAfterAll = "pending"
    /\ exitsSeen = {}
    /\ scenarios = 0

NextHooks ==
    \/ BeforeAll
    \/ \E n \in Servers : OnData(n)
    \/ Scenario
    \/ AfterAll
    \/ \E n \in Servers : Crash(n)
    \/ \E n \in Servers : Terminate(n)

SpecHooks == InitHooks /\ [][NextHooks]_vars

---------------------------------------------------------------------------
(* Claims about pipe *)

RECURSIVE Compose(_)
\* f_n(...f_2(f_1(input))...) of the first n steps, every promise unwrapped
Compose(n) == IF n = 0 THEN input ELSE StepValue(n, fns[n], Compose(n - 1))

NoFailingStep == \A k \in 1..Len(fns) : fns[k] \notin FailingSteps

\* the position of the first failing step, 0 when no step fails
FirstFailing ==
    IF NoFailingStep THEN 0
    ELSE CHOOSE k \in 1..Len(fns) :
            /\ fns[k] \in FailingSteps
            /\ \A j \in 1..(k - 1) : fns[j] \notin FailingSteps

WasInvoked(k) == \E i \in 1..Len(invoked) : invoked[i] = k

\* C1: for steps that return values or promises of values, in any mix, the
\* value the caller's await delivers is f_n(...f_1(x)...) with every promise
\* unwrapped; with no step it is x itself.
C1_PipeComposes ==
    (NoFailingStep /\ outcome.kind # "none") =>
        /\ outcome.kind = "value"
        /\ outcome.v = Compose(Len(fns))
        /\ Len(fns) = 0 => outcome.v = input

C1_Witness ==
    /\ outcome.kind = "value"
    /\ fns = <<"addTwo", "asyncMultiplyByTwo", "multiplyByThree">>
    /\ input = Num(1)
    /\ outcome.v = Num(18)

\* C2: whatever the list of steps, the empty list included, the composed
\* function returns a promise, never a bare value.
C2_ReturnsPromise == pcPipe = "called" => returned.kind = "promise"

\* a step is in progress from its invocation until the promise it returned settles
InProgress(k) == wrapper[k] = "locked"

\* C3: step k+1 is invoked only after step k has returned and the promise it
\* returned has resolved; the steps are invoked in order, and no two steps
\* of one invocation are in progress at the same time.
C3_StrictOrder ==
    pcPipe = "called" =>
        /\ \A k \in 1..Len(fns) :
              (k > 1 /\ WasInvoked(k)) =>
                  /\ WasInvoked(k - 1)
                  /\ wrapper[k - 1] = "done"
                  /\ promise[k - 1].state = "fulfilled"
        /\ \A i, j \in 1..Len(invoked) : i < j => invoked[i] < invoked[j]
        /\ Cardinality({k \in 1..Len(fns) : InProgress(k)}) <= 1

C3_Witness ==
    /\ pcPipe = "called"
    /\ Len(fns) = 3
    /\ fns[1] \in AsyncSteps
    /\ wrapper[2] = "locked"
    /\ wrapper[3] = "suspended"
    /\ invoked = <<1, 2>>

\* C4: when step k throws or returns a rejected promise, the pipeline's
\* promise rejects with that same error, no step after k is invoked and no
\* value is delivered to the caller; k may be the first step.
C4_FailureStops ==
    (pcPipe = "called" /\ FirstFailing > 0) =>
        /\ \A j \in (FirstFailing + 1)..Len(fns) : ~WasInvoked(j)
        /\ outcome.kind # "value"
        /\ promise[Len(fns)].state # "fulfilled"
        /\ promise[Len(fns)].state = "rejected" => promise[Len(fns)].v = Err(FirstFailing)
        /\ outcome.kind = "error" => outcome.v = Err(FirstFailing)
        /\ WasInvoked(FirstFailing) => promise[FirstFailing].state # "fulfilled"

C4_Witness ==
    /\ outcome.kind = "error"
    /\ Len(fns) = 3
    /\ fns[1] = "rejectingStep"
    /\ fns[3] = "throwingStep"
    /\ invoked = <<1>>
    /\ outcome.v = Err(1)

---------------------------------------------------------------------------
(* Claims about mapKeysWith *)

\* the input names of a contract, and its output names
ContractInputs(c) == {ToKey(c[i][2]) : i \in 1..Len(c)}
ContractOutputs(c) == KeysOf(c)
\* the keys of the record that are the input name of no contract entry
Unmatched == KeysOf(mkData) \ ContractInputs(mkContract)
ValuesOf(entries) == {entries[i][2] : i \in 1..Len(entries)}

\* C5: every key of the record that is the input name of no contract entry
\* is dropped: the output has no key 'undefined' and holds no value of the
\* record that sat under an unmatched key.
C5_UnmatchedDropped ==
    mkMapped.done =>
        /\ ~HasKey(mkMapped.entries, "undefined")
        /\ \A k \in Unmatched : GetKey(mkData, k) \notin ValuesOf(mkMapped.entries)

\* a record whose keys are no names of Object.prototype, and a contract none
\* of whose output names is 'undefined'
OrdinaryNames ==
    /\ KeysOf(mkData) \cap ObjectPrototypeKeys = {}
    /\ "undefined" \notin ContractOutputs(mkContract)

\* C6: for all records and contracts, two output names with one input name
\* included, the output has exactly the keys {o : contract[o] is a key of
\* the record}, and holds record[contract[o]] under each such o.  Stated
\* here for ordinary names only, where it already fails.
C6_ExactKeys ==
    (mkMapped.done /\ OrdinaryNames) =>
        /\ KeysOf(mkMapped.entries) =
              {o \in ContractOutputs(mkContract) :
                  ToKey(GetKey(mkContract, o)) \in KeysOf(mkData)}
        /\ \A o \in KeysOf(mkMapped.entries) :
              GetKey(mkMapped.entries, o) = GetKey(mkData, ToKey(GetKey(mkContract, o)))

---------------------------------------------------------------------------
(* Claims about the envelope steps and applyFilters *)

RECURSIVE At(_, _)
\* the value a structure holds at a path, Undefined where the path ends early
At(dv, path) ==
    IF path = << >> THEN dv
    ELSE IF dv.t = "object" THEN At(GetKey(dv.entries, Head(path)), Tail(path))
    ELSE Undefined

\* the envelope handed to the last call, and the one it returned
Before == argBefore
After == DeepVal(heap, retval)

StepDone(name) == op.name = name /\ err = "none"

\* C7: mapResponse writes to data.mappedResponse the renaming of
\* data.response.body under data.config.contract: for a sequence, a sequence
\* of the same length whose i-th element is mapKeysWith(body[i], contract);
\* for a single record, mapKeysWith(body, contract).
C7_MapResponse ==
    StepDone("mapResponse") =>
        LET body == At(Before, DataResponseBody)
            c == At(Before, DataConfig \o <<"contract">>)
            centries == IF c.t = "object" THEN c.entries ELSE << >>
            out == At(After, DataMappedResponse)
        IN  IF body.t = "array"
            THEN /\ out.t = "array"
                 /\ Len(out.elems) = Len(body.elems)
                 /\ \A i \in 1..Len(body.elems) :
                       out.elems[i] = Obj(mapKeysWith(body.elems[i].entries, centries))
            ELSE /\ body.t = "object"
                 /\ out = Obj(mapKeysWith(body.entries, centries))

C7_Witness ==
    /\ StepDone("mapResponse")
    /\ At(Before, DataResponseBody).t = "array"
    /\ Len(At(Before, DataResponseBody).elems) = 4
    /\ At(Before, DataConfig \o <<"contract">>).t = "object"
    /\ GetKey(At(After, DataMappedResponse).elems[3].entries, "distance") = Num(220)

\* C8: no call changes the value it is handed: after composeRequest,
\* makeRequest, mapResponse, createResult, setWith(path, f) or
\* applyFilters(ps), whether it returned or threw, its argument denotes what
\* it denoted before the call.
C8_ArgumentUnchanged ==
    op.name # "none" => DeepVal(heap, arg) = argBefore

C8_Witness ==
    /\ StepDone("setWith")
    /\ op.modifier.name = "applyFilters"
    /\ Len(At(After, DataMappedResponse).elems) < Len(At(Before, DataMappedResponse).elems)
    /\ At(After, DataRequest).t = "object"

RECURSIVE Preserved(_, _, _)
\* every field of `b` off the path p is a field of `a` with an equal value,
\* and every object on the path is still an object
Preserved(b, a, p) ==
    IF p = << >> \/ b.t # "object" THEN TRUE
    ELSE /\ a.t = "object"
         /\ \A i \in 1..Len(b.entries) :
               LET k == b.entries[i][1]
               IN  /\ HasKey(a.entries, k)
                   /\ IF k = Head(p)
                      THEN Preserved(b.entries[i][2], GetKey(a.entries, k), Tail(p))
                      ELSE GetKey(a.entries, k) = b.entries[i][2]

EnvelopeSteps == {"composeRequest", "makeRequest", "mapResponse", "setWith", "createResult"}

\* C9: after any sequence of envelope steps, every field the envelope had
\* before a step is there after it with an equal value, except on the path
\* the step writes: data.request, data.response.body, data.mappedResponse,
\* the path of setWith, result.
C9_FieldsPreserved ==
    (op.name \in EnvelopeSteps /\ err = "none") => Preserved(Before, After, op.path)

C9_Witness ==
    /\ StepDone("createResult")
    /\ ncalls = 4
    /\ At(Before, Result) = Obj(<< >>)
    /\ At(After, Result \o <<"data">>).t = "array"
    /\ At(After, DataResponseBody).t = "array"

\* a predicate on a row given as a structure
Holds(name, row) ==
    CASE name = "xLessThan4" ->
            GetKey(row.entries, "x").t = "number" /\ GetKey(row.entries, "x").n < 4
      [] name = "distanceLessThan200" ->
            GetKey(row.entries, "distance").t = "number" /\ GetKey(row.entries, "distance").n < 200

\* the indices of the rows of xs on which every predicate of ps holds
KeptIndices(xs, ps) ==
    {i \in 1..Len(xs) : \A j \in 1..Len(ps) : Holds(ps[j], xs[i])}

\* C10: applyFilters(ps)(xs) is the subsequence of xs, in the original
\* order, of exactly the elements on which every predicate of ps holds; with
\* no predicate it is equal to xs.
C10_ApplyFilters ==
    StepDone("applyFilters") =>
        LET xs == Before.elems
            out == After.elems
            kept == KeptIndices(xs, op.filters)
        IN  /\ After.t = "array"
            /\ Len(out) = Cardinality(kept)
            /\ \A i \in kept : out[Cardinality({j \in kept : j <= i})] = xs[i]
            /\ op.filters = << >> => out = xs

C10_Witness ==
    /\ StepDone("applyFilters")
    /\ Len(op.filters) = 2
    /\ op.filters[1] # op.filters[2]
    /\ Len(Before.elems) = 3
    /\ Len(After.elems) = 1
    /\ After.elems[1] = Before.elems[2]

---------------------------------------------------------------------------
(* Claims about setWith *)

\* what a modifier returns for a value given as a structure; JSON.parse
\* returns for the text of the test only, applyFilters for a sequence only
NoValue == [t |-> "none"]
Transformed(modifier, v) ==
    CASE modifier.name = "identity"     -> v
      [] modifier.name = "JSON.parse"   -> IF v = Str(JsonText) THEN JsonParsed ELSE NoValue
      [] modifier.name = "applyFilters" ->
            LET Kept(row) == \A j \in 1..Len(modifier.filters) : Holds(modifier.filters[j], row)
            IN  IF v.t = "array" THEN Arr(SelectSeq(v.elems, Kept)) ELSE NoValue

\* C11: setWith(p, f)(env) is a new envelope whose value at p is f(v), v
\* being the value of env at p (undefined when env has no p), and whose
\* every field off p is equal to the field of env.
C11_SetWith ==
    StepDone("setWith") =>
        /\ retval # arg
        /\ At(After, op.path) = Transformed(op.modifier, At(Before, op.path))
        /\ Preserved(Before, After, op.path)

C11_Witness ==
    /\ StepDone("setWith")
    /\ op.modifier.name = "JSON.parse"
    /\ At(Before, op.path) = Str(JsonText)
    /\ At(After, op.path) = JsonParsed
    /\ At(After, DataConfig) = At(Before, DataConfig)

\* C12: for every envelope and every path, in the envelope or not,
\* setWith(p, identity)(env) is structurally equal to env and is another
\* reference.
C12_IdentityEqual ==
    (StepDone("setWith") /\ op.modifier.name = "identity") =>
        /\ After = Before
        /\ retval # arg

---------------------------------------------------------------------------
(* Claims about isValidInterface *)

\* the input and the model handed to isValidInterface, as structures
TheInput == DeepVal(heap, cur)
TheModel == DeepVal(heap, vModel)

\* the records of an input: its elements when it is a sequence, itself otherwise
RecordsOf(dv) == IF dv.t = "array" THEN {dv.elems[i] : i \in 1..Len(dv.elems)} ELSE {dv}

\* the runtime type of a value given as a structure
RuntimeType(dv) ==
    CASE dv.t \in {"object", "array", "null"} -> "object"
      [] dv.t \in {"number", "NaN"}           -> "number"
      [] OTHER                                -> dv.t

\* the model declares the key k and the value v matches what it declares
Matches(model, k, v) ==
    /\ HasKey(model.entries, k)
    /\ IF GetKey(model.entries, k) = Str("array")
       THEN v.t = "array"
       ELSE GetKey(model.entries, k) = Str(RuntimeType(v))

SatisfiesModel(record, model) ==
    \A i \in 1..Len(record.entries) : Matches(model, record.entries[i][1], record.entries[i][2])

HasUndeclaredKey(record, model) == KeysOf(record.entries) \ KeysOf(model.entries) # {}

\* C13: for an input of records, isValidInterface(input, model) is true iff
\* every record has, for each of its keys, a model entry that its value
\* matches ('array': a sequence; any other tag: the runtime type); a record
\* lacking a modelled field still validates, one with a key the model does
\* not declare never does.
C13_ValidIff ==
    (op.name = "isValidInterface" /\ \A r \in RecordsOf(TheInput) : r.t = "object") =>
        /\ err = "none"
        /\ retval = Bool(\A r \in RecordsOf(TheInput) : SatisfiesModel(r, TheModel))
        /\ (\E r \in RecordsOf(TheInput) : HasUndeclaredKey(r, TheModel)) => retval = Bool(FALSE)

C13_Witness ==
    /\ op.name = "isValidInterface"
    /\ TheModel = TestModel
    /\ TheInput.t = "array"
    /\ Len(TheInput.elems) = 2
    /\ TheInput.elems[1] = TestRecord
    /\ TheInput.elems[2].t = "object"
    /\ KeysOf(TheInput.elems[2].entries) = {"a"}
    /\ retval = Bool(TRUE)

\* C14: for a flat model and an input that is a record or a sequence, a
\* sequence holding null or other values that are no records included,
\* isValidInterface returns a boolean and does not throw.
C14_NeverThrows ==
    op.name = "isValidInterface" =>
        /\ err = "none"
        /\ retval.t = "boolean"

---------------------------------------------------------------------------
(* Claims about substituteOperators, complyWith and the operator 'less than' *)

\* the names the registry resolves
Registered == {"less than"}

\* the list handed to the last call before the call, and what the call returned
ListBefore == argBefore
Returned == DeepVal(heap, retval)

Field(record, k) == GetKey(record.entries, k)

\* C15: substituteOperators(rs) returns a new list of the length and order
\* of rs whose restrictions are new objects with the property and value of
\* those of rs and the registry's function as operator; rs and its
\* restrictions are as before, their operators still the names.
C15_SubstituteFrame ==
    op.name = "substituteOperators" =>
        /\ err = "none"
        /\ retval # arg
        /\ Returned.t = "array"
        /\ Len(Returned.elems) = Len(ListBefore.elems)
        /\ \A i \in 1..Len(ListBefore.elems) :
              /\ Field(Returned.elems[i], "property") = Field(ListBefore.elems[i], "property")
              /\ Field(Returned.elems[i], "value") = Field(ListBefore.elems[i], "value")
              /\ Field(ListBefore.elems[i], "operator") = Str("less than")
                    => Field(Returned.elems[i], "operator") = Fn("lessThan")
              /\ heap[retval.id].elems[i] # heap[arg.id].elems[i]
        /\ DeepVal(heap, arg) = ListBefore
        /\ \A i \in 1..Len(ListBefore.elems) : Field(ListBefore.elems[i], "operator").t = "string"

C15_Witness ==
    /\ op.name = "substituteOperators"
    /\ Len(ListBefore.elems) = 2
    /\ Field(Returned.elems[1], "operator") = Fn("lessThan")
    /\ Field(Returned.elems[2], "operator") = Fn("lessThan")
    /\ Field(DeepVal(heap, arg).elems[1], "operator") = Str("less than")
    /\ Field(Returned.elems[1], "value") # Field(Returned.elems[2], "value")

RECURSIVE Horner(_, _)
\* the value of a sequence of digits, read from the left
Horner(cs, acc) == IF cs = << >> THEN acc ELSE Horner(Tail(cs), 10 * acc + DigitValue(Head(cs)))

\* text that writes a decimal integer, with or without a sign
IsNumeral(cs) ==
    /\ cs # << >>
    /\ \/ \A i \in 1..Len(cs) : IsDigit(cs[i])
       \/ Len(cs) > 1 /\ cs[1] \in {"-", "+"} /\ \A i \in 2..Len(cs) : IsDigit(cs[i])
NumeralValue(cs) ==
    IF cs[1] = "-" THEN 0 - Horner(Tail(cs), 0)
    ELSE IF cs[1] = "+" THEN Horner(Tail(cs), 0)
    ELSE Horner(cs, 0)

\* text without the blanks around it
Unpadded(cs) ==
    LET inner == {i \in 1..Len(cs) : cs[i] # " "}
    IN  IF inner = {} THEN << >>
        ELSE SubSeq(cs, CHOOSE i \in inner : \A j \in inner : i <= j,
                        CHOOSE i \in inner : \A j \in inner : j <= i)

\* an operand that is a number or a numeral, and the number it stands for
IsNumeric(v) == v.t = "number" \/ (IsText(v) /\ IsNumeral(Unpadded(v.cs)))
ValueOf(v) == IF v.t = "number" THEN v.n ELSE NumeralValue(Unpadded(v.cs))

\* an operand that is no number but is compared as one: null, false and
\* blank text as 0, true as 1
CountsAsNumber(v) ==
    \/ v.t \in {"null", "boolean"}
    \/ IsText(v) /\ \A i \in 1..Len(v.cs) : v.cs[i] = " "
CountedAs(v) == IF v = Bool(TRUE) THEN 1 ELSE 0

OperatorCalled == op.name = "operator" /\ op.of = Fn("lessThan")

\* C16 as stated: the operator resolved for 'less than' returns true exactly
\* when both operands are numbers or numerals and the first is, by numeric
\* value, strictly less than the second; an operand that is absent or is
\* not numeric gives false.
C16_LessThanStated ==
    OperatorCalled =>
        /\ err = "none"
        /\ retval = Bool(IsNumeric(op.a) /\ IsNumeric(op.b) /\ ValueOf(op.a) < ValueOf(op.b))

NumberFor(v) == IF IsNumeric(v) THEN ValueOf(v) ELSE CountedAs(v)

\* C16 as amended: the operator returns true exactly when both operands
\* coerce to numbers and the first is strictly less than the second:
\* numerals are compared by numeric value, equal operands give false, an
\* absent operand and text that is neither a numeral nor blank give false,
\* and null, false and blank text are compared as 0, true as 1.
C16_LessThan ==
    OperatorCalled =>
        /\ err = "none"
        /\ retval = Bool(/\ IsNumeric(op.a) \/ CountsAsNumber(op.a)
                         /\ IsNumeric(op.b) \/ CountsAsNumber(op.b)
                         /\ NumberFor(op.a) < NumberFor(op.b))
        /\ op.a = op.b => retval = Bool(FALSE)
        /\ Undefined \in {op.a, op.b} => retval = Bool(FALSE)

C16_Witness ==
    /\ OperatorCalled
    /\ op.a = Text(<<"9">>)
    /\ op.b = Text(<<"1", "0">>)
    /\ retval = Bool(TRUE)

\* the list holds a restriction whose operator the registry does not have
HasUnregistered(list) ==
    \E i \in 1..Len(list.elems) : Field(list.elems[i], "operator") \notin {Str(n) : n \in Registered}

\* C17: a restriction whose operator name is not in the registry resolves
\* to a restriction whose operator is undefined, and every call of
\* complyWith with a list holding such a restriction fails with an error,
\* whatever the input.
C17_UnknownOperator ==
    /\ (op.name = "substituteOperators" /\ err = "none") =>
          \A i \in 1..Len(ListBefore.elems) :
              Field(ListBefore.elems[i], "operator") \notin {Str(n) : n \in Registered}
                  => Field(Returned.elems[i], "operator") = Undefined
    /\ (op.name = "complyWith" /\ HasUnregistered(ListBefore)) => err # "none"

\* a record satisfies a restriction: the operator 'less than' holds of the
\* record's value under the property and the restriction's value
SatisfiesRestriction(record, restriction) ==
    lessThan(heap, Field(record, Field(restriction, "property").s), Field(restriction, "value"))

\* C18: for a list of restrictions with registered operators,
\* complyWith(input, restrictions) is true iff every record of the input
\* satisfies every restriction; one element or one restriction that fails
\* makes it false.
C18_ComplyIff ==
    (op.name = "complyWith" /\ ~HasUnregistered(ListBefore)) =>
        /\ err = "none"
        /\ retval = Bool(\A r \in RecordsOf(TheInput) :
                            \A i \in 1..Len(ListBefore.elems) :
                                SatisfiesRestriction(r, ListBefore.elems[i]))

C18_Witness ==
    /\ op.name = "complyWith"
    /\ TheInput = Arr(<<Distance(Num(100)), Distance(Num(222))>>)
    /\ ListBefore = Arr(<<LessThan200>>)
    /\ retval = Bool(FALSE)

\* C19: after any sequence of complyWith and substituteOperators calls on one
\* list the caller's list is as it was, and every call returns what the
\* first call of the same function on the same input and list returned.
C19_ListUnchanged ==
    /\ op.name \in {"complyWith", "substituteOperators"} => DeepVal(heap, vList) = ListBefore
    /\ \A i, j \in 1..Len(history) :
          history[i].name = history[j].name => history[i] = history[j]

C19_Witness ==
    /\ Len(history) = 3
    /\ history[1].name = "complyWith"
    /\ history[2].name = "substituteOperators"
    /\ history[3].name = "complyWith"
    /\ history[3].ret = Bool(TRUE)
    /\ Len(ListBefore.elems) = 2
    /\ TheInput.t = "array"
    /\ Len(TheInput.elems) = 2

---------------------------------------------------------------------------
(* Claims about the /stores handler *)

\* an upstream record renamed per the contract of the handler
Renamed(class, report, address, range) ==
    Obj(<< <<"type", Str(class)>>, <<"description", Str(report)>>,
           <<"location", Str(address)>>, <<"distance", Num(range)>> >>)

\* the body the claim expects for the upstream's four records
ExpectedStores ==
    Obj(<< <<"data",
             Arr(<< Renamed("dog", "Nice dog store in downtown Toronto", "203 King street West", 100),
                    Renamed("cat", "Nice cat store in downtown Toronto", "200 Wellington street West", 50),
                    Renamed("barber shop", "Nice barber shop downtown Toronto", "20 King street West", 10) >>)>>,
           <<"metadata", Obj(<< >>)>> >>)

\* the handler of request r is over and its upstream answered with the
\* stub's four records
HandledStub(r) == reqs[r].stage = "done" /\ reqs[r].reply = [ok |-> TRUE, body |-> StubData]

\* C20: a GET /stores request whose upstream returned the records with
\* ranges 100, 50, 220, 10 is answered with the body {data, metadata: {}},
\* data holding the records with ranges 100, 50 and 10 in upstream order,
\* renamed per the contract and without the upstream's 'type'.
C20_StoresResponse ==
    \A r \in Requests :
        HandledStub(r) =>
            /\ reqs[r].response.sent
            /\ reqs[r].response.body = ExpectedStores

---------------------------------------------------------------------------
(* Claims about composeRequest and createResult *)

\* the request composeRequest derives from a configuration given as a
\* structure
RequestFor(config) ==
    Obj(<< <<"uri", Url(ToKey(GetKey(config.entries, "endpoint")),
                        GetKey(config.entries, "host").s)>>,
           <<"options", Obj(<< <<"headers", GetKey(config.entries, "headers")>>,
                               <<"method", GetKey(config.entries, "method")>> >>)>> >>)

\* C21: composeRequest returns an envelope whose data.request is
\* {uri, options: {headers, method}}, uri being the URL of
\* data.config.endpoint resolved against data.config.host, headers and
\* method those of data.config; event, data.config and result are as in the
\* input.
C21_ComposeRequest ==
    StepDone("composeRequest") =>
        /\ At(Before, DataConfig).t = "object"
        /\ At(After, DataRequest) = RequestFor(At(Before, DataConfig))
        /\ At(After, <<"event">>) = At(Before, <<"event">>)
        /\ At(After, DataConfig) = At(Before, DataConfig)
        /\ At(After, Result) = At(Before, Result)

C21_Witness ==
    /\ StepDone("composeRequest")
    /\ At(After, DataRequest \o <<"uri">>) = Url("data", "http://localhost:3010")
    /\ At(After, DataRequest \o <<"options", "method">>) = Str("GET")
    /\ At(After, DataRequest \o <<"options", "headers", "content-type">>) = Str("application/json")
    /\ At(After, <<"event", "body">>) = Str(JsonText)

\* C22: createResult returns an envelope whose result is exactly
\* {data: D, metadata: {}}, D being equal to the input's
\* data.mappedResponse, whatever result held before; data.mappedResponse
\* and data.response are unchanged.
C22_CreateResult ==
    StepDone("createResult") =>
        /\ At(After, Result) =
              Obj(<< <<"data", At(Before, DataMappedResponse)>>, <<"metadata", Obj(<< >>)>> >>)
        /\ At(After, DataMappedResponse) = At(Before, DataMappedResponse)
        /\ At(After, DataResponse) = At(Before, DataResponse)

C22_Witness ==
    /\ StepDone("createResult")
    /\ At(Before, DataMappedResponse).t = "array"
    /\ Len(At(Before, DataMappedResponse).elems) = 4
    /\ At(After, Result \o <<"data">>) = At(Before, DataMappedResponse)
    /\ At(After, Result \o <<"metadata">>) = Obj(<< >>)
    /\ At(After, DataResponseBody) = StubData

\* the cells reached from a value: the mutable structure it gives access to
CellsOf(v) == IF IsRef(v) THEN Reachable(heap, {v.id}) ELSE {}

\* C26: the envelope composeRequest returns is a full structural copy: it
\* shares no mutable sub-structure with the envelope it was handed, so that
\* no change made in place through the one (as to
\* data.request.options.headers) is seen through the other.
C26_NoSharedStructure ==
    StepDone("composeRequest") => CellsOf(retval) \cap CellsOf(arg) = {}

---------------------------------------------------------------------------
(* Claims about steps applied out of order *)

\* the step just called was handed an envelope without the field it reads
Misordered ==
    \/ op.name = "mapResponse" /\ At(Before, DataResponse) = Undefined
    \/ op.name = "makeRequest" /\ At(Before, DataRequest) = Undefined

\* C29: a step applied before the step that produces its input fails and
\* returns no envelope: mapResponse without data.response throws,
\* makeRequest without data.request rejects; the sequence of steps ends
\* there, no later step runs.
C29_MisorderedFails ==
    [][/\ Misordered' => (err' # "none" /\ retval' = Undefined)
       /\ (Misordered /\ err # "none") => UNCHANGED vars]_vars

C29_Witness ==
    /\ op.name = "mapResponse"
    /\ At(Before, DataResponse) = Undefined
    /\ At(Before, DataRequest).t = "object"
    /\ err = "TypeError"
    /\ ncalls = 2

---------------------------------------------------------------------------
(* Claims about isValidInterface on an input without fields *)

\* the input is a record without fields, as the one the integration step
\* puts for a property the response lacks, or a sequence without elements
NothingToValidate == TheInput \in {Obj(<< >>), Arr(<< >>)}

\* C30: isValidInterface returns true for an empty record and for an empty
\* sequence, whatever the model: no field is validated, and the default {}
\* of the integration step passes its interface check.
C30_VacuousOnEmpty ==
    (op.name = "isValidInterface" /\ NothingToValidate) =>
        /\ err = "none"
        /\ retval = Bool(TRUE)

C30_Witness ==
    /\ op.name = "isValidInterface"
    /\ TheInput = Obj(<< >>)
    /\ TheModel = BodyModel
    /\ retval = Bool(TRUE)

---------------------------------------------------------------------------
(* Claims about a failing /stores pipeline *)

\* the pipeline of request r has failed
Aborted(r) == reqs[r].error # "none"

\* C23: when a step of the /stores pipeline fails, the failure of the
\* upstream call included, the request is aborted: no step after the failing
\* one runs, and the handler never sends a JSON body, neither a partial
\* result nor one built from the incomplete envelope.
C23_FailureAborts ==
    [][\A r \in Requests :
          /\ Aborted(r)' => ~reqs'[r].response.sent
          /\ Aborted(r) =>
                /\ reqs'[r].k = reqs[r].k
                /\ reqs'[r].env = reqs[r].env
                /\ reqs'[r].h = reqs[r].h
                /\ reqs'[r].error = reqs[r].error]_vars

C23_Witness ==
    \E r \in Requests :
        /\ reqs[r].stage = "done"
        /\ reqs[r].reply = [ok |-> FALSE, body |-> Undefined]
        /\ reqs[r].error = "RequestError"
        /\ reqs[r].k = 1
        /\ ~reqs[r].response.sent

\* an HTTP response to request r has been sent, whatever its status
Answered(r) == reqs[r].response.sent

\* the handler of request r has ended: nothing of the server acts on the
\* request any more
HandlerEnded(r) == reqs[r].stage = "done"

\* C25: every GET /stores request eventually receives an HTTP response; when
\* its pipeline aborts, the handler answers with an error status rather than
\* leaving the request unanswered. As no step follows the end of the handler,
\* this is: a request whose handler has ended has been sent a response.
C25_EventuallyAnswered ==
    \A r \in Requests : HandlerEnded(r) => Answered(r)

---------------------------------------------------------------------------
(* Claims about concurrent /stores requests *)

RECURSIVE RunAlone(_, _)
\* the pipeline of one request run to its end with no other request in the
\* server, the upstream answering with reply
RunAlone(q, reply) ==
    IF q.stage # "running" THEN q
    ELSE LET step == StoresPipeline[q.k + 1]
         IN  IF step = "makeRequest"
             THEN IF get(q.h, q.env, DataRequest, Undefined) = Undefined
                  THEN RunAlone(Outcome(q, makeRequest(q.h, q.env, NoReply)), reply)
                  ELSE RunAlone(Outcome([q EXCEPT !.reply = reply],
                                        makeRequest(q.h, q.env, reply)), reply)
             ELSE RunAlone(Outcome(q, CallImported(Imported(step), q.h, q.env)), reply)

\* the record of a request served alone whose upstream call got reply: its
\* own config lifted, its pipeline run, its handler ended
Alone(reply) ==
    LET a       == Alloc(<< >>, lift(StoresConfig, Empty))
        settled == RunAlone([NoRequest EXCEPT !.stage = "running", !.h = a.h, !.env = a.v], reply)
    IN  [settled EXCEPT !.stage = "done",
                        !.response = IF settled.error = "none"
                                     THEN [sent |-> TRUE,
                                           body |-> ToJson(DeepVal(settled.h, Prop(settled.h, settled.env, "result")))]
                                     ELSE NotSent]

---------------------------------------------------------------------------
(* Claims about the hooks of the integration test *)

\* server n has been spawned
Started(n) == childProcess[n].state # "none"

\* server n has written a line its regular expression matches
ReadinessPrinted(n) == \E output \in childProcess[n].stdout : Test(Regex(n), output)

\* C27: the app is spawned first, the stub is spawned only after the app has
\* printed its readiness line, and BeforeAll resolves, so that a scenario can
\* start, only after the stub has printed its readiness line too.
C27_BothReadyBeforeScenarios ==
    /\ Started("stub") => (Started("app") /\ ReadinessPrinted("app"))
    /\ (pcBeforeAll = "resolved" \/ scenarios > 0) =>
          (ReadinessPrinted("app") /\ ReadinessPrinted("stub"))

C27_Witness ==
    /\ pcBeforeAll = "resolved"
    /\ processes = <<"app", "stub">>
    /\ scenarios = 1
    /\ <<"starting", "app">> \in childProcess["app"].stdout
    /\ ReadinessPrinted("stub")

\* C28: AfterAll calls kill() on every process BeforeAll recorded, it
\* completes only after each of them has emitted its exit, and once it has
\* completed no server that was spawned is still running.
C28_TeardownWaitsForExits ==
    /\ pcAfterAll # "pending" => \A n \in Recorded : childProcess[n].killCalled
    /\ pcAfterAll = "resolved" =>
          /\ \A n \in Recorded : childProcess[n].state = "exited"
          /\ \A n \in Servers : childProcess[n].state # "running"

C28_Witness ==
    /\ pcAfterAll = "resolved"
    /\ Recorded = Servers
    /\ \A n \in Servers : childProcess[n].state = "exited" /\ childProcess[n].signal

=============================================================================
